---- MODULE Spec2Model ----
(***************************************************************************)
(* Model of the ESP-NOW token-ring light controller, src/ring/esp32_ring.ino *)
(* One coordinator (the node whose persisted position is 0) and NumJoiners  *)
(* other devices running the same sketch.  Every device's globals are one   *)
(* record of the function `node`; the Preferences store of a device is      *)
(* `prefs`; the radio medium is `net`.                                      *)
(*                                                                         *)
(* A transport address (6 bytes in the sketch) is one small integer here;   *)
(* a message payload is the tuple of the fields its type carries, in the    *)
(* order the sketch lays them out.  All devices read one clock, `now`.      *)
(***************************************************************************)
EXTENDS Integers, Sequences, FiniteSets, TLC

\* ------------------------------------------------------------ bounds
NumJoiners == 2          \* devices besides the coordinator
MaxTimeJoin == 3350      \* SpecJoin: the clock stops advancing here
MaxTimeRetry == 4700     \* SpecRetry: the clock stops advancing here
MaxTimeRing == 3700      \* SpecRing: the clock stops advancing here
MaxTimeRejoin == 6000    \* SpecRejoin: the clock stops advancing here
MaxCycles == 2           \* trigger-timer cycles of the coordinator
MaxPresses == 2          \* button presses per device
MaxIR == 2               \* remote-control commands the coordinator decodes
MaxBoots == 1             \* power cycles
MaxForeign == 1           \* datagrams of foreign senders (SpecOpen)
MaxFlood == 9             \* datagrams of other devices (SpecFlood)
MaxTimeHold == 15000     \* SpecHold: the clock stops advancing here
MaxAllocs == 65536       \* SpecMsgId: calls of allocateMsgId
MaxWrapTicks == 4        \* SpecWrap: pending ticks

\* ------------------------------------------------------------ program constants
MAX_NODES == 60
ACK_RETRIES == 3
ACK_RETRY_MS == 350
MAX_PENDING_ACK == 16
JOIN_HOLD_MS == 3000
FACTORY_RESET_MS == 10000
LOCK_KEY_MAXLEN == 32
PENDING_TICK_MS == 100
TRIGGER_INTERVAL_MS == 500
HOPS_MARGIN == 4
CTRL_HOPS == 8
ACK_HOPS == 4

MSG_JOIN_REQ == 1
MSG_ASSIGN == 2
MSG_SET_DOWN == 3
MSG_TRIGGER == 4
MSG_PING == 5
MSG_ACK == 6
MSG_LOCK == 7
FLAG_ACK_REQ == 1

BROADCAST_MAC == 255
UNASSIGNED_POS == 255

Nodes == 0 .. NumJoiners
Master == 0
Joiners == Nodes \ {Master}
\* esp_read_mac: the device's own address
MacOf(n) == 10 + n
Macs == {MacOf(n) : n \in Nodes}

U8(x) == x % 256
U16(x) == x % 65536
UINT16_MAX == 65535

macIsBroadcast(mac) == mac = BROADCAST_MAC

VARIABLES
  node,     \* node[n]: the globals of device n
  prefs,    \* prefs[n]: the Preferences namespace "mesh" of device n
  net,      \* datagrams on the air: [src, dst, rcv, msg, ord], rcv the receiving device
  now,      \* millis()
  ev,       \* the last step: [kind, n, msg, chg, from, calls] (msg: the datagram received,
            \* from: its sender's address; chg: globals changed; calls: esp_now_send calls)
  out,      \* the datagrams the transport accepted in the last step, in order
  anim,     \* the playLedSequence calls of the last step: [node, seq, via, sent]
  played,   \* every [node, seq, via] playLedSequence has run for
  presses,  \* presses[n]: button presses of device n so far
  cycles,   \* trigger-timer cycles run so far
  irs,      \* remote-control commands decoded so far
  boots,    \* power cycles so far
  heard,    \* datagrams of foreign senders received so far
  ctlSent,  \* <<n, msg_id>> of every Assign / SetDown the transport accepted from n
  ctlAcked, \* <<n, msg_id>> of those whose slot an Ack cleared
  txlog,    \* txlog[n][i]: transmissions of the message in slot i, and the time of the last
  firstAssign, \* firstAssign[mac]: payload of the first Assign sent to mac (<<>>: none yet)
  origin,   \* the Triggers originated: [seq, K, settled] (K joined devices, all acked)
  alloc,    \* the ids allocateMsgId returned in SpecMsgId: [first, last, count]
  clk       \* one slot's clock in SpecWrap: now, last (send), since (last before the
            \* tick), as times since power-up in 16-bit halves [hi, lo]; due; ticks

vars == <<node, prefs, net, now, ev, out, anim, played, presses, cycles, irs, boots, heard,
          ctlSent, ctlAcked, txlog, firstAssign, origin, alloc, clk>>

\* ------------------------------------------------------------ messages
\* struct MeshMsg after memset(&m,0,sizeof(m))
ZeroMsg ==
  [type |-> 0, flags |-> 0, src_pos |-> 0, dest_pos |-> 0, msg_id |-> 0,
   seq |-> 0, hops |-> 0, payload |-> <<>>]

\* struct PendingAck of the zero-initialised global array
ZeroPending ==
  [used |-> FALSE, msg_id |-> 0, dest_mac |-> 0, msg |-> ZeroMsg,
   retries_left |-> 0, last_sent_ms |-> 0]

\* derived_pmk / derived_lmk before any derivation, and the two halves of SHA-256
ZeroKey == <<0, <<>>>>
PmkOf(key) == <<1, key>>
LmkOf(key) == <<2, key>>

\* ------------------------------------------------------------ helper functions
\* returns the id and the globals after the call
\* allocateMsgId without the step over 0
allocateMsgIdNoSkip(s) ==
  [id |-> s.next_msg_id, s |-> [s EXCEPT !.next_msg_id = U16(@ + 1)]]

allocateMsgId(s) ==
  LET nxt == U16(s.next_msg_id + 1)
  IN  [id |-> s.next_msg_id,
       s |-> [s EXCEPT !.next_msg_id = IF nxt = 0 THEN 1 ELSE nxt]]

derive_keys_from_lock(s, key) ==
  [s EXCEPT !.derived_pmk = PmkOf(key), !.derived_lmk = LmkOf(key)]

esp_now_is_peer_exist(s, mac) == \E e \in s.esp_peers : e.peer_addr = mac

ensurePeerKnown(s, mac) ==
  IF macIsBroadcast(mac) THEN s
  ELSE IF esp_now_is_peer_exist(s, mac) THEN s
  ELSE [s EXCEPT !.esp_peers =
          @ \cup {[peer_addr |-> mac, encrypt |-> s.locked, lmk |-> s.derived_lmk]}]

\* ------------------------------------------------------------ persistence
\* A Preferences namespace: `has` is the set of keys present.
EmptyPrefs ==
  [has |-> {}, pos |-> 0, ringsz |-> 0, down |-> 0, locked |-> FALSE,
   lockk |-> <<>>, peerCount |-> 0, peer |-> <<>>]

saveStateToPrefs(c) ==
  [c EXCEPT !.p = [@ EXCEPT !.has = @ \cup {"pos", "ringsz", "down", "locked", "lockk"},
                            !.pos = c.s.myPos,
                            !.ringsz = c.s.ring_size,
                            !.down = c.s.downstreamMac,
                            !.locked = c.s.locked,
                            !.lockk = c.s.lock_key]]

\* a MAC one of whose six bytes is 0xff (setup's "empty" test); the broadcast
\* address is the one with all six
anyByteFF(mac) == mac >= 200

\* the address of a device one of whose six bytes is 0xff, and not all
UNICAST_FF_MAC == 200

loadStateFromPrefs(s, p) ==
  [s EXCEPT !.myPos = IF "pos" \in p.has THEN p.pos ELSE -1,
            !.ring_size = IF "ringsz" \in p.has THEN p.ringsz ELSE 1,
            !.downstreamMac = IF "down" \in p.has THEN p.down ELSE BROADCAST_MAC,
            !.locked = IF "locked" \in p.has THEN p.locked ELSE FALSE,
            !.lock_key = IF "lockk" \in p.has THEN p.lockk ELSE <<>>]

saveMasterPeersToPrefs(c) ==
  [c EXCEPT !.p = [@ EXCEPT !.has = @ \cup {"peerCount"},
                            !.peerCount = c.s.peerCount,
                            !.peer = [i \in 1 .. (IF Len(@) > c.s.peerCount THEN Len(@)
                                                  ELSE c.s.peerCount) |->
                                        IF i <= c.s.peerCount THEN c.s.peers[i].mac
                                        ELSE @[i]]]]

\* peers[i] of the sketch is peers[i+1] here (sequences count from 1)
addMasterPeer(s, mac, pos) ==
  IF pos < 0 \/ pos >= MAX_NODES THEN s
  ELSE LET e == [mac |-> mac, pos |-> pos]
           ps == IF pos + 1 <= Len(s.peers)
                 THEN [s.peers EXCEPT ![pos + 1] = e]
                 ELSE Append(s.peers, e)
       IN  [s EXCEPT !.peers = ps,
                     !.peerCount = IF pos >= @ THEN pos + 1 ELSE @]

loadMasterPeersFromPrefs(s, p) ==
  LET cnt == IF "peerCount" \in p.has THEN p.peerCount ELSE -1
  IN  IF cnt <= 0 THEN s
      ELSE [s EXCEPT !.peerCount = cnt,
                     !.peers = [i \in 1 .. cnt |->
                                  IF i <= Len(p.peer)
                                  THEN [mac |-> p.peer[i], pos |-> i - 1]
                                  ELSE [mac |-> BROADCAST_MAC, pos |-> i - 1]]]

findPosByMacFirstOnly(s, mac) ==
  IF s.peerCount > 0 /\ s.peers[1].mac = mac THEN s.peers[1].pos ELSE -1

findPosByMac(s, mac) ==
  LET hits == {i \in 1 .. s.peerCount : s.peers[i].mac = mac}
  IN  IF hits = {} THEN -1
      ELSE s.peers[CHOOSE i \in hits : \A j \in hits : i <= j].pos

\* ------------------------------------------------------------ handler context
\* A handler runs on a context: s the device's globals, p its Preferences,
\* tx the datagrams esp_now_send accepted (in order), led the trigger sequence
\* numbers playLedSequence was called for, k the esp_now_send calls made so
\* far, F the calls (by ordinal) that the transport rejects, t millis().
Ctx(s, p, F, t) ==
  [s |-> s, p |-> p, tx |-> <<>>, led |-> <<>>, k |-> 0, F |-> F, t |-> t, res |-> TRUE]

\* esp_now_send: res is ESP_OK or not
esp_now_send(c, dest_mac, m) ==
  IF (c.k + 1) \in c.F
  THEN [c EXCEPT !.k = @ + 1, !.res = FALSE]
  ELSE [c EXCEPT !.k = @ + 1, !.res = TRUE,
                 !.tx = Append(@, [dst |-> dest_mac, msg |-> m])]

\* via: "timer" from the trigger timer, "msg" from handleTriggerMsg; sent: the
\* esp_now_send calls the handler made before this one
playLedSequence(c, seq, via) ==
  [c EXCEPT !.led = Append(@, [seq |-> seq, via |-> via, sent |-> c.k])]

\* ------------------------------------------------------------ pending ACK logic
FreeSlots(s) == {i \in 1 .. MAX_PENDING_ACK : ~s.pending[i].used}

\* queuePendingAck taking slot 0 when no slot is free
queuePendingAckOverwrites(c, dest_mac, m) ==
  LET i == IF FreeSlots(c.s) = {} THEN 1
           ELSE CHOOSE i \in FreeSlots(c.s) : \A j \in FreeSlots(c.s) : i <= j
  IN  [c EXCEPT !.s.pending[i] =
         [used |-> TRUE, msg_id |-> m.msg_id, dest_mac |-> dest_mac, msg |-> m,
          retries_left |-> ACK_RETRIES, last_sent_ms |-> c.t]]

queuePendingAck(c, dest_mac, m) ==
  IF FreeSlots(c.s) = {} THEN c
  ELSE LET i == CHOOSE i \in FreeSlots(c.s) : \A j \in FreeSlots(c.s) : i <= j
       IN  [c EXCEPT !.s.pending[i] =
              [used |-> TRUE, msg_id |-> m.msg_id, dest_mac |-> dest_mac, msg |-> m,
               retries_left |-> ACK_RETRIES, last_sent_ms |-> c.t]]

\* clearPendingForMsgId with the comparison of msg_id inverted
clearPendingForMsgIdInverted(s, msg_id) ==
  [s EXCEPT !.pending =
     [i \in 1 .. MAX_PENDING_ACK |->
        IF @[i].used /\ @[i].msg_id # msg_id THEN [@[i] EXCEPT !.used = FALSE]
        ELSE @[i]]]

clearPendingForMsgId(s, msg_id) ==
  [s EXCEPT !.pending =
     [i \in 1 .. MAX_PENDING_ACK |->
        IF @[i].used /\ @[i].msg_id = msg_id THEN [@[i] EXCEPT !.used = FALSE]
        ELSE @[i]]]

\* (uint32_t)(now - last_sent_ms); the clock of the model stays below 2^31
Elapsed(t, since) == t - since

\* A uint32_t in 16-bit halves: [hi, lo] is hi * 2^16 + lo.
ToU32(x) == [hi |-> (x \div 65536) % 65536, lo |-> x % 65536]

\* a - b in uint32_t arithmetic
U32Sub(a, b) ==
  LET borrow == IF a.lo < b.lo THEN 1 ELSE 0
  IN  [hi |-> (a.hi - b.hi - borrow) % 65536, lo |-> (a.lo - b.lo) % 65536]

\* a >= k for a k below 2^16
U32AtLeast(a, k) == a.hi > 0 \/ a.lo >= k

\* the decision comparing the two stamps as they stand, without the subtraction
retryDueByCompare(now32, last32) ==
  \/ now32.hi > last32.hi
  \/ now32.hi = last32.hi /\ now32.lo >= last32.lo + ACK_RETRY_MS

\* (uint32_t)(now - pending[i].last_sent_ms) >= ACK_RETRY_MS
retryDue(now32, last32) == U32AtLeast(U32Sub(now32, last32), ACK_RETRY_MS)

\* processSlot without retries_left--
processSlotNoDecrement(c, i) ==
  LET e == c.s.pending[i]
  IN  IF ~e.used THEN c
      ELSE IF retryDue(ToU32(c.t), ToU32(e.last_sent_ms))
      THEN IF e.retries_left = 0
           THEN [c EXCEPT !.s.pending[i].used = FALSE]
           ELSE LET c1 == esp_now_send(c, e.dest_mac, e.msg)
                IN  IF ~c1.res THEN c1
                    ELSE [c1 EXCEPT !.s.pending[i].last_sent_ms = c.t]
      ELSE c

\* one iteration of the for loop of processPendingAcks
processSlot(c, i) ==
  LET e == c.s.pending[i]
  IN  IF ~e.used THEN c
      ELSE IF retryDue(ToU32(c.t), ToU32(e.last_sent_ms))
      THEN IF e.retries_left = 0
           THEN [c EXCEPT !.s.pending[i].used = FALSE]
           ELSE LET c1 == esp_now_send(c, e.dest_mac, e.msg)
                IN  IF ~c1.res THEN c1
                    ELSE [c1 EXCEPT !.s.pending[i].last_sent_ms = c.t,
                                    !.s.pending[i].retries_left = @ - 1]
      ELSE c

RECURSIVE processFrom(_, _)
processFrom(c, i) ==
  IF i > MAX_PENDING_ACK THEN c ELSE processFrom(processSlot(c, i), i + 1)

processPendingAcks(c) == processFrom(c, 1)

\* ------------------------------------------------------------ sending wrapper
sendMeshMsg(c, dest_mac, m, requireAck) ==
  LET c0 == IF ~macIsBroadcast(dest_mac)
            THEN [c EXCEPT !.s = ensurePeerKnown(@, dest_mac)] ELSE c
      c1 == esp_now_send(c0, dest_mac, m)
  IN  IF ~c1.res THEN c1
      ELSE IF requireAck THEN queuePendingAck(c1, dest_mac, m) ELSE c1

\* ------------------------------------------------------------ message handlers
handleAssignMsg(c, msg) ==
  saveStateToPrefs([c EXCEPT !.s.myPos = msg.payload[1],
                             !.s.ring_size = msg.payload[2],
                             !.s.downstreamMac = msg.payload[3]])

handleSetDownMsg(c, msg) ==
  saveStateToPrefs([c EXCEPT !.s.downstreamMac = msg.payload[1]])

\* a C string: the bytes before the first NUL
RECURSIVE CStr(_)
CStr(bytes) ==
  IF bytes = <<>> \/ Head(bytes) = 0 THEN <<>> ELSE <<Head(bytes)>> \o CStr(Tail(bytes))

\* msg.payload[i] of the sketch; a Lock payload holds all 12 bytes, an index past
\* them reads whatever follows the message in memory (junk)
PAYLOAD_LEN == 12
PayloadByte(msg, i, junk) == IF i < Len(msg.payload) THEN msg.payload[i + 1] ELSE junk

\* handleLockMsg copying the key from payload[0], the length byte included
handleLockMsgKeyFromLengthByte(c, msg, junk) ==
  LET klen == PayloadByte(msg, 0, junk)
  IN  IF klen = 0 \/ klen > LOCK_KEY_MAXLEN THEN c
      ELSE LET rkey == [i \in 1 .. klen |-> PayloadByte(msg, i - 1, junk)]
               key == CStr(rkey)
               s1 == derive_keys_from_lock([c.s EXCEPT !.lock_key = key], key)
               s2 == [s1 EXCEPT !.esp_pmk = s1.derived_pmk, !.locked = TRUE]
           IN  [c EXCEPT !.s = s2,
                         !.p = [@ EXCEPT !.has = @ \cup {"locked", "lockk"},
                                         !.locked = TRUE, !.lockk = key]]

handleLockMsg(c, msg, junk) ==
  LET klen == PayloadByte(msg, 0, junk)
  IN  IF klen = 0 \/ klen > LOCK_KEY_MAXLEN THEN c
      ELSE LET rkey == [i \in 1 .. klen |-> PayloadByte(msg, i, junk)]
               key == CStr(rkey)
               s1 == derive_keys_from_lock([c.s EXCEPT !.lock_key = key], key)
               s2 == [s1 EXCEPT !.esp_pmk = s1.derived_pmk, !.locked = TRUE]
           IN  [c EXCEPT !.s = s2,
                         !.p = [@ EXCEPT !.has = @ \cup {"locked", "lockk"},
                                         !.locked = TRUE, !.lockk = key]]

\* handleTriggerMsg without the hops == 0 return; msg.hops - 1 is a uint8_t
handleTriggerMsgNoTTL(c, msg) ==
  IF msg.dest_pos = c.s.myPos
  THEN LET c1 == playLedSequence(c, msg.seq, "msg")
           nextpos == U8((c.s.myPos + 1) % c.s.ring_size)
           a == allocateMsgId(c1.s)
           ackReq == (msg.flags % 2) = FLAG_ACK_REQ
           next == [msg EXCEPT !.hops = U8(msg.hops - 1),
                               !.src_pos = U8(c.s.myPos),
                               !.dest_pos = nextpos,
                               !.msg_id = a.id]
           c2 == [c1 EXCEPT !.s = ensurePeerKnown(a.s, c.s.downstreamMac)]
       IN  sendMeshMsg(c2, c.s.downstreamMac, next, ackReq)
  ELSE c

\* handleTriggerMsg comparing dest_pos with myPos as a uint8_t
handleTriggerMsgByteCompare(c, msg) ==
  IF msg.hops = 0 THEN c
  ELSE IF msg.dest_pos = U8(c.s.myPos)
  THEN LET c1 == playLedSequence(c, msg.seq, "msg")
           nextpos == U8((c.s.myPos + 1) % c.s.ring_size)
           a == allocateMsgId(c1.s)
           ackReq == (msg.flags % 2) = FLAG_ACK_REQ
           next == [msg EXCEPT !.hops = msg.hops - 1,
                               !.src_pos = U8(c.s.myPos),
                               !.dest_pos = nextpos,
                               !.msg_id = a.id]
           c2 == [c1 EXCEPT !.s = ensurePeerKnown(a.s, c.s.downstreamMac)]
       IN  sendMeshMsg(c2, c.s.downstreamMac, next, ackReq)
  ELSE c

\* handleTriggerMsg never registering the forwarded Trigger
handleTriggerMsgNeverQueued(c, msg) ==
  IF msg.hops = 0 THEN c
  ELSE IF msg.dest_pos = c.s.myPos
  THEN LET c1 == playLedSequence(c, msg.seq, "msg")
           nextpos == U8((c.s.myPos + 1) % c.s.ring_size)
           a == allocateMsgId(c1.s)
           next == [msg EXCEPT !.hops = msg.hops - 1,
                               !.src_pos = U8(c.s.myPos),
                               !.dest_pos = nextpos,
                               !.msg_id = a.id]
           c2 == [c1 EXCEPT !.s = ensurePeerKnown(a.s, c.s.downstreamMac)]
       IN  sendMeshMsg(c2, c.s.downstreamMac, next, FALSE)
  ELSE c

\* handleTriggerMsg forwarding with the hops it received
handleTriggerMsgKeepsHops(c, msg) ==
  IF msg.hops = 0 THEN c
  ELSE IF msg.dest_pos = c.s.myPos
  THEN LET c1 == playLedSequence(c, msg.seq, "msg")
           nextpos == U8((c.s.myPos + 1) % c.s.ring_size)
           a == allocateMsgId(c1.s)
           ackReq == (msg.flags % 2) = FLAG_ACK_REQ
           next == [msg EXCEPT !.src_pos = U8(c.s.myPos),
                               !.dest_pos = nextpos,
                               !.msg_id = a.id]
           c2 == [c1 EXCEPT !.s = ensurePeerKnown(a.s, c.s.downstreamMac)]
       IN  sendMeshMsg(c2, c.s.downstreamMac, next, ackReq)
  ELSE c

handleTriggerMsg(c, msg) ==
  IF msg.hops = 0 THEN c
  ELSE IF msg.dest_pos = c.s.myPos
  THEN LET c1 == playLedSequence(c, msg.seq, "msg")
           nextpos == U8((c.s.myPos + 1) % c.s.ring_size)
           a == allocateMsgId(c1.s)
           ackReq == (msg.flags % 2) = FLAG_ACK_REQ
           next == [msg EXCEPT !.hops = msg.hops - 1,
                               !.src_pos = U8(c.s.myPos),
                               !.dest_pos = nextpos,
                               !.msg_id = a.id]
           c2 == [c1 EXCEPT !.s = ensurePeerKnown(a.s, c.s.downstreamMac)]
       IN  sendMeshMsg(c2, c.s.downstreamMac, next, ackReq)
  ELSE c

\* ------------------------------------------------------------ master join handling
\* the ASSIGN re-sent to a requester that already holds position `existing`
ResendAssignMsgRingPlusOne(s, existing, id) ==
  [ZeroMsg EXCEPT !.type = MSG_ASSIGN, !.src_pos = 0, !.dest_pos = U8(existing),
                  !.msg_id = id, !.hops = CTRL_HOPS,
                  !.payload = <<U8(existing), U8(s.ring_size + 1), s.myMac>>]

ResendAssignMsg(s, existing, id) ==
  [ZeroMsg EXCEPT !.type = MSG_ASSIGN, !.src_pos = 0, !.dest_pos = U8(existing),
                  !.msg_id = id, !.hops = CTRL_HOPS,
                  !.payload = <<U8(existing), U8(s.ring_size), s.myMac>>]

\* the ASSIGN for a new position; the downstream it names is the master
\* AssignMsg carrying the ring size from before the join
AssignMsgOldRingSize(s, newpos, id) ==
  [ZeroMsg EXCEPT !.type = MSG_ASSIGN, !.src_pos = 0, !.dest_pos = U8(newpos),
                  !.msg_id = id, !.hops = CTRL_HOPS,
                  !.payload = <<U8(newpos), U8(newpos), s.myMac>>]

AssignMsg(s, newpos, id) ==
  [ZeroMsg EXCEPT !.type = MSG_ASSIGN, !.src_pos = 0, !.dest_pos = U8(newpos),
                  !.msg_id = id, !.hops = CTRL_HOPS,
                  !.payload = <<U8(newpos), U8(s.ring_size), s.myMac>>]

\* the SET_DOWN that tells position newpos - 1 its new downstream
SetDownMsg(newpos, requester_mac, id) ==
  [ZeroMsg EXCEPT !.type = MSG_SET_DOWN, !.src_pos = 0, !.dest_pos = U8(newpos - 1),
                  !.msg_id = id, !.hops = CTRL_HOPS, !.payload = <<requester_mac>>]

\* joinUnlocked without the `peerCount >= MAX_NODES` return
joinUnlockedNoCapacityCheck(c, requester_mac) ==
  LET existing == findPosByMac(c.s, requester_mac)
  IN
  IF existing >= 0
  THEN LET a == allocateMsgId(c.s)
       IN  sendMeshMsg([c EXCEPT !.s = a.s], requester_mac,
                       ResendAssignMsg(a.s, existing, a.id), TRUE)
  ELSE LET newpos == c.s.peerCount
           s1 == addMasterPeer(c.s, requester_mac, newpos)
           s2 == [s1 EXCEPT !.ring_size = s1.peerCount]
           s3 == ensurePeerKnown(s2, requester_mac)
           a == allocateMsgId(s3)
           c1 == sendMeshMsg([c EXCEPT !.s = a.s], requester_mac,
                             AssignMsg(a.s, newpos, a.id), TRUE)
           b == allocateMsgId(c1.s)
           c2 == IF newpos - 1 >= 0
                 THEN sendMeshMsg([c1 EXCEPT !.s = b.s], c1.s.peers[newpos].mac,
                                  SetDownMsg(newpos, requester_mac, b.id), TRUE)
                 ELSE c1
       IN  saveMasterPeersToPrefs(c2)

\* handleJoinRequestMaster past its `if (locked) return`
joinUnlocked(c, requester_mac) ==
  LET existing == findPosByMac(c.s, requester_mac)
  IN
  IF existing >= 0
  THEN LET a == allocateMsgId(c.s)
       IN  sendMeshMsg([c EXCEPT !.s = a.s], requester_mac,
                       ResendAssignMsg(a.s, existing, a.id), TRUE)
  ELSE IF c.s.peerCount >= MAX_NODES THEN c
  ELSE LET newpos == c.s.peerCount
           s1 == addMasterPeer(c.s, requester_mac, newpos)
           s2 == [s1 EXCEPT !.ring_size = s1.peerCount]
           s3 == ensurePeerKnown(s2, requester_mac)
           a == allocateMsgId(s3)
           c1 == sendMeshMsg([c EXCEPT !.s = a.s], requester_mac,
                             AssignMsg(a.s, newpos, a.id), TRUE)
           b == allocateMsgId(c1.s)
           c2 == IF newpos - 1 >= 0
                 THEN sendMeshMsg([c1 EXCEPT !.s = b.s], c1.s.peers[newpos].mac,
                                  SetDownMsg(newpos, requester_mac, b.id), TRUE)
                 ELSE c1
       IN  saveMasterPeersToPrefs(c2)

handleJoinRequestMasterNoLockCheck(c, requester_mac) == joinUnlocked(c, requester_mac)

handleJoinRequestMaster(c, requester_mac) ==
  IF c.s.locked THEN c ELSE joinUnlocked(c, requester_mac)

\* ------------------------------------------------------------ ESP-NOW receive callback
\* AckFor keeping the flags of the message it answers
AckForCopiesFlags(c, msg) ==
  [ZeroMsg EXCEPT !.type = MSG_ACK, !.flags = msg.flags,
                  !.src_pos = IF c.s.myPos < 0 THEN UNASSIGNED_POS ELSE U8(c.s.myPos),
                  !.dest_pos = msg.src_pos, !.msg_id = msg.msg_id, !.hops = ACK_HOPS]

AckFor(c, msg) ==
  [ZeroMsg EXCEPT !.type = MSG_ACK,
                  !.src_pos = IF c.s.myPos < 0 THEN UNASSIGNED_POS ELSE U8(c.s.myPos),
                  !.dest_pos = msg.src_pos, !.msg_id = msg.msg_id, !.hops = ACK_HOPS]

onDataRecv(c, mac, msg, junk) ==
  IF msg.type = MSG_ACK THEN [c EXCEPT !.s = clearPendingForMsgId(@, msg.msg_id)]
  ELSE IF msg.type = MSG_LOCK
  THEN LET c1 == handleLockMsg(c, msg, junk)
       IN  IF msg.msg_id # 0 THEN sendMeshMsg(c1, mac, AckFor(c1, msg), FALSE) ELSE c1
  ELSE IF c.s.myPos = 0 /\ msg.type = MSG_JOIN_REQ
  THEN handleJoinRequestMaster(c, msg.payload[1])
  ELSE IF msg.type = MSG_ASSIGN
  THEN LET c1 == handleAssignMsg(c, msg)
       IN  IF msg.msg_id # 0 THEN sendMeshMsg(c1, mac, AckFor(c1, msg), FALSE) ELSE c1
  ELSE IF msg.type = MSG_SET_DOWN
  THEN LET c1 == handleSetDownMsg(c, msg)
       IN  IF msg.msg_id # 0 THEN sendMeshMsg(c1, mac, AckFor(c1, msg), FALSE) ELSE c1
  ELSE IF msg.type = MSG_TRIGGER
  THEN LET c1 == handleTriggerMsg(c, msg)
       IN  IF (msg.flags % 2) = FLAG_ACK_REQ
           THEN sendMeshMsg(c1, mac, AckFor(c1, msg), FALSE) ELSE c1
  ELSE c

\* ------------------------------------------------------------ setup
\* the globals of a device at power-up, before setup() runs
BootGlobals(n) ==
  [myMac |-> MacOf(n), downstreamMac |-> 0, myPos |-> -1, ring_size |-> 1,
   trigger_seq |-> 0, next_msg_id |-> 1,
   trigger_interval_ms |-> TRIGGER_INTERVAL_MS, master_running |-> FALSE,
   lock_key |-> <<>>, locked |-> FALSE, derived_pmk |-> ZeroKey, derived_lmk |-> ZeroKey,
   peers |-> <<>>, peerCount |-> 0,
   pending |-> [i \in 1 .. MAX_PENDING_ACK |-> ZeroPending],
   esp_peers |-> {}, esp_pmk |-> ZeroKey,
   lastTriggerMillis |-> 0, lastBtnPressMs |-> 0, btn_pressed |-> FALSE,
   btn_event_sent |-> FALSE, lastPendingProcess |-> 0]

RECURSIVE ensurePeersFrom(_, _)
ensurePeersFrom(s, i) ==
  IF i > s.peerCount THEN s
  ELSE ensurePeersFrom(ensurePeerKnown(s, s.peers[i].mac), i + 1)

setup(n, p) ==
  LET s1 == loadStateFromPrefs(BootGlobals(n), p)
      keyed(s) == IF s.locked /\ s.lock_key # <<>>
                  THEN derive_keys_from_lock(s, s.lock_key) ELSE s
      s2 == IF s1.myPos = 0
            THEN ensurePeersFrom(
                   keyed(loadMasterPeersFromPrefs(addMasterPeer(s1, s1.myMac, 0), p)), 1)
            ELSE LET d == [s1 EXCEPT !.downstreamMac =
                                        IF anyByteFF(@) THEN BROADCAST_MAC ELSE @]
                 IN  IF d.locked /\ d.lock_key # <<>>
                     THEN [keyed(d) EXCEPT !.esp_pmk = keyed(d).derived_pmk]
                     ELSE d
  IN  [s2 EXCEPT !.pending = [i \in 1 .. MAX_PENDING_ACK |-> [@[i] EXCEPT !.used = FALSE]]]

\* ------------------------------------------------------------ the radio medium
\* The datagrams the accepted sends of one handler put on the air, behind those
\* already queued in net0: a broadcast reaches every other device, a unicast the
\* device that owns the address.  ord is the datagram's place in the queue from
\* its sender to its receiver; the radio hands them over in the order sent.
Reaches(n, dst, r) == IF macIsBroadcast(dst) THEN r # n ELSE MacOf(r) = dst

Frames(n, tx, net0) ==
  LET queued(r) == Cardinality({g \in net0 : g.src = MacOf(n) /\ g.rcv = r})
      before(i, r) == Cardinality({j \in 1 .. (i - 1) : Reaches(n, tx[j].dst, r)})
  IN  UNION {{[src |-> MacOf(n), dst |-> tx[i].dst, rcv |-> r, msg |-> tx[i].msg,
               ord |-> queued(r) + before(i, r)] :
                r \in {r \in Nodes : Reaches(n, tx[i].dst, r)}} :
             i \in 1 .. Len(tx)}

\* net without its datagram f, the ones queued behind f moved up
Dequeue(f) ==
  {IF g.src = f.src /\ g.rcv = f.rcv /\ g.ord > f.ord THEN [g EXCEPT !.ord = @ - 1] ELSE g :
     g \in net \ {f}}

NoMsg == ZeroMsg

\* transmissions, in tx, of the message slot e holds
TxOf(e, tx) == Cardinality({j \in 1 .. Len(tx) : tx[j].msg = e.msg /\ tx[j].dst = e.dest_mac})

\* The effects of a handler that ran on device n (kind and msg describe the
\* step), and the bookkeeping of the observation variables.
CommitFrom(n, c, net0, kind, msg, mac) ==
  /\ node' = [node EXCEPT ![n] = c.s]
  /\ prefs' = [prefs EXCEPT ![n] = c.p]
  /\ net' = net0 \cup Frames(n, c.tx, net0)
  /\ ev' = [kind |-> kind, n |-> n, msg |-> msg, chg |-> c.s # node[n], from |-> mac,
            calls |-> c.k]
  /\ out' = [i \in 1 .. Len(c.tx) |->
               [src |-> MacOf(n), dst |-> c.tx[i].dst, msg |-> c.tx[i].msg]]
  /\ anim' = [i \in 1 .. Len(c.led) |->
                [node |-> n, seq |-> c.led[i].seq, via |-> c.led[i].via,
                 sent |-> c.led[i].sent]]
  /\ played' = played \cup
       {[node |-> n, seq |-> c.led[i].seq, via |-> c.led[i].via] : i \in 1 .. Len(c.led)}
  /\ ctlSent' = ctlSent \cup
       {<<n, c.tx[i].msg.msg_id>> :
          i \in {j \in 1 .. Len(c.tx) : c.tx[j].msg.type \in {MSG_ASSIGN, MSG_SET_DOWN}}}
  /\ ctlAcked' = ctlAcked \cup
       {<<n, node[n].pending[i].msg_id>> :
          i \in {j \in 1 .. MAX_PENDING_ACK :
                   /\ kind = "recv" /\ msg.type = MSG_ACK
                   /\ node[n].pending[j].used /\ ~c.s.pending[j].used
                   /\ node[n].pending[j].msg.type \in {MSG_ASSIGN, MSG_SET_DOWN}}}
  /\ txlog' = [txlog EXCEPT ![n] =
       [i \in 1 .. MAX_PENDING_ACK |->
          LET e == c.s.pending[i]
              same == node[n].pending[i].used /\ node[n].pending[i].msg = e.msg
              k == TxOf(e, c.tx)
          IN  IF ~e.used THEN [count |-> 0, at |-> 0]
              ELSE [count |-> (IF same THEN @[i].count ELSE 0) + k,
                    at |-> IF k > 0 THEN now ELSE IF same THEN @[i].at ELSE 0]]]

  /\ firstAssign' =
       [m \in DOMAIN firstAssign |->
          LET js == {j \in 1 .. Len(c.tx) :
                       c.tx[j].msg.type = MSG_ASSIGN /\ c.tx[j].dst = m}
          IN  IF firstAssign[m] # <<>> \/ js = {} THEN firstAssign[m]
              ELSE c.tx[CHOOSE j \in js : \A k \in js : j <= k].msg.payload]
  /\ origin' = IF kind = "timer" /\ c.tx # <<>>
               THEN origin \cup {[seq |-> c.tx[1].msg.seq, K |-> node[n].peerCount - 1,
                                   settled |-> ctlSent \subseteq ctlAcked]}
               ELSE origin
  /\ alloc' = alloc
  /\ clk' = clk

\* a step of device n that is not the receipt of a datagram
Commit(n, c, net0, kind, msg) == CommitFrom(n, c, net0, kind, msg, MacOf(n))

Here(n, F) == Ctx(node[n], prefs[n], F, now)

\* ------------------------------------------------------------ the clock of one slot
\* Times since power-up, not cut to 32 bits: [hi, lo] with lo below 2^16 and
\* hi any natural number.  millis() is such a time cut to a uint32_t.
TimeAdd(a, d) ==
  [hi |-> a.hi + d.hi + ((a.lo + d.lo) \div 65536), lo |-> (a.lo + d.lo) % 65536]

TimeSub(a, b) ==
  [hi |-> a.hi - b.hi - (IF a.lo < b.lo THEN 1 ELSE 0), lo |-> (a.lo - b.lo) % 65536]

millis(T) == [hi |-> T.hi % 65536, lo |-> T.lo]

\* a slot sent at time T and not looked at since
ClockAt(T) == [now |-> T, last |-> T, since |-> T, due |-> FALSE, ticks |-> 0]

\* ------------------------------------------------------------ Init
\* The coordinator is the device whose Preferences hold pos = 0; the others
\* start with an empty namespace.  Every device has run setup().
InitPrefs(n) ==
  IF n = Master THEN [EmptyPrefs EXCEPT !.has = {"pos"}, !.pos = 0] ELSE EmptyPrefs

InitLog ==
  /\ net = {}
  /\ ev = [kind |-> "boot", n |-> Master, msg |-> NoMsg, chg |-> FALSE,
           from |-> MacOf(Master), calls |-> 0]
  /\ out = <<>>
  /\ anim = <<>>
  /\ played = {}
  /\ cycles = 0
  /\ irs = 0
  /\ boots = 0
  /\ heard = 0
  /\ ctlSent = {}
  /\ ctlAcked = {}
  /\ txlog = [n \in Nodes |-> [i \in 1 .. MAX_PENDING_ACK |-> [count |-> 0, at |-> 0]]]
  /\ firstAssign = [m \in Macs |-> <<>>]
  /\ origin = {}
  /\ alloc = [first |-> 0, last |-> 0, count |-> 0]

InitObs ==
  /\ InitLog
  /\ clk = ClockAt([hi |-> 0, lo |-> 0])

Init ==
  /\ prefs = [n \in Nodes |-> InitPrefs(n)]
  /\ node = [n \in Nodes |-> setup(n, InitPrefs(n))]
  /\ now = 0
  /\ presses = [n \in Nodes |-> 0]
  /\ InitObs

\* ------------------------------------------------------------ loop(): the button
LOW == 0
HIGH == 1

JoinReqMsg(s, id) ==
  [ZeroMsg EXCEPT !.type = MSG_JOIN_REQ, !.src_pos = UNASSIGNED_POS,
                  !.dest_pos = UNASSIGNED_POS, !.msg_id = id, !.hops = CTRL_HOPS,
                  !.payload = <<s.myMac>>]

\* joinHeld taking position 1 for itself instead of clearing the assignment
joinHeldAssumesPosition(c) ==
  LET c1 == saveStateToPrefs([c EXCEPT !.s.btn_event_sent = TRUE,
                                       !.s.myPos = 1,
                                       !.s.ring_size = 2,
                                       !.s.downstreamMac = BROADCAST_MAC])
      a == allocateMsgId(c1.s)
  IN  sendMeshMsg([c1 EXCEPT !.s = a.s], BROADCAST_MAC, JoinReqMsg(a.s, a.id), FALSE)

\* joinHeld asking sendMeshMsg to track the JOIN_REQ
joinHeldTracked(c) ==
  LET c1 == saveStateToPrefs([c EXCEPT !.s.btn_event_sent = TRUE,
                                       !.s.myPos = -1,
                                       !.s.ring_size = 1,
                                       !.s.downstreamMac = BROADCAST_MAC])
      a == allocateMsgId(c1.s)
  IN  sendMeshMsg([c1 EXCEPT !.s = a.s], BROADCAST_MAC, JoinReqMsg(a.s, a.id), TRUE)

\* the 3 s branch: clear the local assignment, persist, broadcast JOIN_REQ
joinHeld(c) ==
  LET c1 == saveStateToPrefs([c EXCEPT !.s.btn_event_sent = TRUE,
                                       !.s.myPos = -1,
                                       !.s.ring_size = 1,
                                       !.s.downstreamMac = BROADCAST_MAC])
      a == allocateMsgId(c1.s)
  IN  sendMeshMsg([c1 EXCEPT !.s = a.s], BROADCAST_MAC, JoinReqMsg(a.s, a.id), FALSE)

\* the 10 s branch: prefs.clear() and ESP.restart()
factoryReset(n, c) == [c EXCEPT !.p = EmptyPrefs, !.s = setup(n, EmptyPrefs)]

loopButton(n, c, b) ==
  IF b = LOW
  THEN IF ~c.s.btn_pressed
       THEN [c EXCEPT !.s.btn_pressed = TRUE, !.s.lastBtnPressMs = c.t,
                      !.s.btn_event_sent = FALSE]
       ELSE LET held == Elapsed(c.t, c.s.lastBtnPressMs)
            IN  IF held >= FACTORY_RESET_MS /\ ~c.s.btn_event_sent
                THEN factoryReset(n, c)
                ELSE IF held >= JOIN_HOLD_MS /\ ~c.s.btn_event_sent
                THEN joinHeld(c)
                ELSE c
  ELSE [c EXCEPT !.s.btn_pressed = FALSE]

\* One pass of the button section with the pin reading b.  A pass that changes
\* nothing is a stuttering step; a new press counts against MaxPresses.
LoopButton(n, b) ==
  LET c == loopButton(n, Here(n, {}), b)
      press == b = LOW /\ ~node[n].btn_pressed
  IN  /\ press => presses[n] < MaxPresses
      /\ c.s # node[n]
      /\ Commit(n, c, net, "button", NoMsg)
      /\ presses' = [presses EXCEPT ![n] = IF press THEN @ + 1 ELSE @]
      /\ UNCHANGED <<now, cycles, irs, boots, heard>>

\* ------------------------------------------------------------ loop(): the pending tick
LoopPending(n, F) ==
  /\ Elapsed(now, node[n].lastPendingProcess) >= PENDING_TICK_MS
  /\ LET c == processPendingAcks(Here(n, F))
     IN  Commit(n, [c EXCEPT !.s.lastPendingProcess = now], net, "tick", NoMsg)
  /\ UNCHANGED <<now, presses, cycles, irs, boots, heard>>

\* ------------------------------------------------------------ loop(): the IR remote
\* The four IR_CODE_* constants of the sketch are one placeholder value, to be
\* replaced by the codes of the remote in use; the model takes them as distinct.
IR_START_STOP == "start_stop"
IR_FREQ_UP == "freq_up"
IR_FREQ_DOWN == "freq_down"
IR_LOCK == "lock"

TRIGGER_INTERVAL_STEP == 50
LOCK_KEY_MOD == 100000
ASCII_0 == 48
ASCII_L == 76
ASCII_K == 75

\* snprintf(lock_key, ..., "LK%05u", millis() % 100000)
LockKeyAt(t) ==
  LET v == t % LOCK_KEY_MOD
      digit(d) == ASCII_0 + ((v \div d) % 10)
  IN  <<ASCII_L, ASCII_K, digit(10000), digit(1000), digit(100), digit(10), digit(1)>>

\* payload[0] = klen, payload[1..klen] = the key, the rest still zero
LockPayload(key) ==
  LET klen == IF Len(key) < LOCK_KEY_MAXLEN THEN Len(key) ELSE LOCK_KEY_MAXLEN
  IN  [i \in 1 .. PAYLOAD_LEN |->
         IF i = 1 THEN klen ELSE IF i - 1 <= klen THEN key[i - 1] ELSE 0]

\* reAddPeersEncrypted without esp_now_del_peer: esp_now_add_peer fails for an
\* address that is a peer already
reAddPeersWithoutDelete(s) ==
  LET macs == {s.peers[i].mac : i \in 1 .. s.peerCount} \ {BROADCAST_MAC}
  IN  [s EXCEPT !.esp_peers =
         @ \cup {[peer_addr |-> m, encrypt |-> TRUE, lmk |-> s.derived_lmk] :
                   m \in {m \in macs : ~esp_now_is_peer_exist(s, m)}}]

\* the loop that deletes and re-adds every peer with encryption enabled
reAddPeersEncrypted(s) ==
  LET macs == {s.peers[i].mac : i \in 1 .. s.peerCount} \ {BROADCAST_MAC}
  IN  [s EXCEPT !.esp_peers =
         {e \in @ : e.peer_addr \notin macs} \cup
         {[peer_addr |-> m, encrypt |-> TRUE, lmk |-> s.derived_lmk] : m \in macs}]

initiateLock(c) ==
  LET key == LockKeyAt(c.t)
      s1 == derive_keys_from_lock([c.s EXCEPT !.lock_key = key], key)
      s2 == reAddPeersEncrypted([s1 EXCEPT !.esp_pmk = s1.derived_pmk])
      s3 == [s2 EXCEPT !.locked = TRUE]
      a == allocateMsgId(s3)
      m == [ZeroMsg EXCEPT !.type = MSG_LOCK, !.src_pos = 0, !.dest_pos = UNASSIGNED_POS,
                           !.msg_id = a.id, !.hops = CTRL_HOPS,
                           !.payload = LockPayload(key)]
      c1 == [c EXCEPT !.s = a.s,
                      !.p = [@ EXCEPT !.has = @ \cup {"locked", "lockk"},
                                      !.locked = TRUE, !.lockk = key]]
  IN  sendMeshMsg(c1, BROADCAST_MAC, m, TRUE)

loopIR(c, code) ==
  IF code = IR_START_STOP THEN [c EXCEPT !.s.master_running = ~@]
  ELSE IF code = IR_FREQ_UP
  THEN [c EXCEPT !.s.trigger_interval_ms =
          IF @ - TRIGGER_INTERVAL_STEP > TRIGGER_INTERVAL_STEP
          THEN @ - TRIGGER_INTERVAL_STEP ELSE TRIGGER_INTERVAL_STEP]
  ELSE IF code = IR_FREQ_DOWN
  THEN [c EXCEPT !.s.trigger_interval_ms = @ + TRIGGER_INTERVAL_STEP]
  ELSE IF code = IR_LOCK THEN initiateLock(c)
  ELSE c

LoopIR(n, code) ==
  /\ node[n].myPos = 0
  /\ irs < MaxIR
  /\ Commit(n, loopIR(Here(n, {}), code), net, code, NoMsg)
  /\ irs' = irs + 1
  /\ UNCHANGED <<now, presses, cycles, boots, heard>>

\* ------------------------------------------------------------ loop(): the trigger timer
loopTriggerAlwaysSend(c) ==
  LET c1 == playLedSequence([c EXCEPT !.s.lastTriggerMillis = c.t], c.s.trigger_seq, "timer")
      a == allocateMsgId(c1.s)
      m == [ZeroMsg EXCEPT !.type = MSG_TRIGGER, !.src_pos = 0, !.dest_pos = 1,
                           !.msg_id = a.id, !.seq = c.s.trigger_seq,
                           !.hops = U8(c.s.ring_size + HOPS_MARGIN)]
  IN  sendMeshMsg([c1 EXCEPT !.s = [a.s EXCEPT !.trigger_seq = U16(@ + 1)]],
                  BROADCAST_MAC, m, FALSE)

loopTrigger(c) ==
  LET c1 == playLedSequence([c EXCEPT !.s.lastTriggerMillis = c.t], c.s.trigger_seq, "timer")
  IN  IF c.s.ring_size > 1 /\ c.s.peerCount > 1
      THEN LET a == allocateMsgId(c1.s)
               m == [ZeroMsg EXCEPT !.type = MSG_TRIGGER, !.src_pos = 0, !.dest_pos = 1,
                                    !.msg_id = a.id, !.seq = c.s.trigger_seq,
                                    !.hops = U8(c.s.ring_size + HOPS_MARGIN)]
           IN  sendMeshMsg([c1 EXCEPT !.s = [a.s EXCEPT !.trigger_seq = U16(@ + 1)]],
                           c.s.peers[2].mac, m, FALSE)
      ELSE c1

TriggerDue(n) ==
  /\ node[n].myPos = 0
  /\ node[n].master_running
  /\ Elapsed(now, node[n].lastTriggerMillis) >= node[n].trigger_interval_ms

LoopTrigger(n) ==
  /\ TriggerDue(n)
  /\ cycles < MaxCycles
  /\ Commit(n, loopTrigger(Here(n, {})), net, "timer", NoMsg)
  /\ cycles' = cycles + 1
  /\ UNCHANGED <<now, presses, irs, boots, heard>>

\* ------------------------------------------------------------ the medium and the clock
Deliver(f, F, junk) ==
  /\ f \in net
  /\ f.ord = 0
  /\ CommitFrom(f.rcv, onDataRecv(Here(f.rcv, F), f.src, f.msg, junk), Dequeue(f),
                "recv", f.msg, f.src)
  /\ UNCHANGED <<now, presses, cycles, irs, boots, heard>>

Quiet ==
  /\ out' = <<>>
  /\ anim' = <<>>
  /\ UNCHANGED <<node, prefs, played, presses, cycles, irs, boots, heard, ctlSent, ctlAcked, txlog,
               firstAssign, origin, alloc, clk>>

Lose(f) ==
  /\ f \in net
  /\ f.ord = 0
  /\ net' = Dequeue(f)
  /\ ev' = [kind |-> "lose", n |-> Master, msg |-> NoMsg, chg |-> FALSE,
           from |-> MacOf(Master), calls |-> 0]
  /\ Quiet
  /\ UNCHANGED now

\* a device with a message awaiting its Ack
Busy(n) == \E i \in 1 .. MAX_PENDING_ACK : node[n].pending[i].used

\* The clock advances by dt, up to cap.  A datagram is on the air for far less
\* than that: by then each has been received or lost.  loop() runs every 10 ms,
\* so every device with a slot in use has run the pending tick that was due.
Elapse(dt, cap) ==
  /\ now + dt <= cap
  /\ net = {}
  /\ \A n \in Nodes :
        Busy(n) => Elapsed(now, node[n].lastPendingProcess) < PENDING_TICK_MS
  /\ now' = now + dt
  /\ ev' = [kind |-> "elapse", n |-> Master, msg |-> NoMsg, chg |-> FALSE,
           from |-> MacOf(Master), calls |-> 0]
  /\ Quiet
  /\ UNCHANGED net

\* ------------------------------------------------------------ joining over a lossy medium
\* Three seconds after power-up, every joiner's button held down since then.
HeldSinceBoot(n) == loopButton(n, Ctx(setup(n, InitPrefs(n)), InitPrefs(n), {}, 0), LOW).s

InitJoin ==
  /\ prefs = [n \in Nodes |-> InitPrefs(n)]
  /\ node = [n \in Nodes |-> IF n \in Joiners THEN HeldSinceBoot(n)
                             ELSE setup(n, InitPrefs(n))]
  /\ now = JOIN_HOLD_MS
  /\ presses = [n \in Nodes |-> IF n \in Joiners THEN 1 ELSE 0]
  /\ InitObs

\* a tick of a device with no slot in use only moves lastPendingProcess
NextJoin ==
  \/ \E n \in Joiners : LoopButton(n, LOW)
  \/ \E n \in Nodes : Busy(n) /\ LoopPending(n, {})
  \/ \E f \in net : Deliver(f, {}, 0)
  \/ \E f \in net : Lose(f)
  \/ Elapse(ACK_RETRY_MS, MaxTimeJoin)

SpecJoin == InitJoin /\ [][NextJoin]_vars

\* ------------------------------------------------------------ the retry cycle, tick by tick
\* One device joins; the clock moves in pending-tick steps; the transport may
\* reject the first resend of a tick.
NextRetry ==
  \/ LoopButton(1, LOW)
  \/ \E n \in Nodes : \E F \in {{}, {1}} : Busy(n) /\ LoopPending(n, F)
  \/ \E f \in net : Deliver(f, {}, 0)
  \/ \E f \in net : Lose(f)
  \/ Elapse(PENDING_TICK_MS, MaxTimeRetry)

SpecRetry == InitJoin /\ [][NextRetry]_vars

\* ------------------------------------------------------------ the ring over a medium without loss
\* Every datagram to another device is delivered.  A datagram a device
\* addresses to itself (the SetDown for position 0) may or may not be handed
\* back by its radio.
Loopback(f) == f.src = MacOf(f.rcv)

NextRing ==
  \/ \E n \in Joiners : net = {} /\ LoopButton(n, LOW)
  \/ \E code \in {IR_START_STOP, IR_LOCK} : net = {} /\ LoopIR(Master, code)
  \/ net = {} /\ LoopTrigger(Master)
  \/ \E n \in Nodes : Busy(n) /\ LoopPending(n, {})
  \/ \E f \in net : Deliver(f, {}, 0)
  \/ \E f \in net : Loopback(f) /\ Lose(f)
  \/ Elapse(ACK_RETRY_MS, MaxTimeRing)

SpecRing == InitJoin /\ [][NextRing]_vars

\* ------------------------------------------------------------ joining again
\* Devices release the button and hold it a second time, and the coordinator
\* locks the network once; no loss except of datagrams a device addresses to
\* itself.  Local inputs come while the air is clear.
NextRejoin ==
  \/ \E n \in Joiners : \E b \in {LOW, HIGH} : net = {} /\ LoopButton(n, b)
  \/ net = {} /\ irs = 0 /\ LoopIR(Master, IR_LOCK)
  \/ \E n \in Nodes : Busy(n) /\ LoopPending(n, {})
  \/ \E f \in net : Deliver(f, {}, 0)
  \/ \E f \in net : Loopback(f) /\ Lose(f)
  \/ Elapse(JOIN_HOLD_MS, MaxTimeRejoin)

SpecRejoin == InitJoin /\ [][NextRejoin]_vars

\* ------------------------------------------------------------ power cycles
\* Device n is switched off and on and runs setup() over its Preferences.  Its
\* millis() starts again at 0: the times it keeps are counted from this moment.
Restart(n) ==
  /\ boots < MaxBoots
  /\ LET s == [setup(n, prefs[n]) EXCEPT !.lastTriggerMillis = now,
                                         !.lastBtnPressMs = now,
                                         !.lastPendingProcess = now]
     IN  Commit(n, Ctx(s, prefs[n], {}, now), net, "boot", NoMsg)
  /\ boots' = boots + 1
  /\ UNCHANGED <<now, presses, cycles, irs, heard>>

\* Devices join and the coordinator locks the network once; any one device is
\* power-cycled at any moment.  No loss except of datagrams a device addresses
\* to itself.
NextRestart ==
  \/ \E n \in Joiners : net = {} /\ LoopButton(n, LOW)
  \/ net = {} /\ irs = 0 /\ LoopIR(Master, IR_LOCK)
  \/ \E n \in Nodes : Restart(n)
  \/ \E n \in Nodes : Busy(n) /\ LoopPending(n, {})
  \/ \E f \in net : Deliver(f, {}, 0)
  \/ \E f \in net : Loopback(f) /\ Lose(f)
  \/ Elapse(ACK_RETRY_MS, MaxTimeJoin)

SpecRestart == InitJoin /\ [][NextRestart]_vars

\* ------------------------------------------------------------ a ring one short of capacity
\* The coordinator's Preferences after MAX_NODES - 2 devices have joined it:
\* the PeerTable holds its own address and theirs.  Those devices are switched
\* off; their addresses belong to none of the devices here.
FullPrefs ==
  [EmptyPrefs EXCEPT !.has = {"pos", "peerCount"}, !.pos = 0,
                     !.peerCount = MAX_NODES - 1,
                     !.peer = [i \in 1 .. (MAX_NODES - 1) |->
                                 IF i = 1 THEN MacOf(Master) ELSE MacOf(NumJoiners) + i]]

InitCapacity ==
  /\ prefs = [n \in Nodes |-> IF n = Master THEN FullPrefs ELSE InitPrefs(n)]
  /\ node = [n \in Nodes |-> IF n \in Joiners THEN HeldSinceBoot(n)
                             ELSE setup(n, FullPrefs)]
  /\ now = JOIN_HOLD_MS
  /\ presses = [n \in Nodes |-> IF n \in Joiners THEN 1 ELSE 0]
  /\ InitObs

\* The joiners ask to join, over a lossy medium; the coordinator locks the
\* network once and may be power-cycled.
NextCapacity ==
  \/ \E n \in Joiners : LoopButton(n, LOW)
  \/ net = {} /\ irs = 0 /\ LoopIR(Master, IR_LOCK)
  \/ Restart(Master)
  \/ \E n \in Nodes : Busy(n) /\ LoopPending(n, {})
  \/ \E f \in net : Deliver(f, {}, 0)
  \/ \E f \in net : Lose(f)
  \/ Elapse(ACK_RETRY_MS, MaxTimeJoin)

SpecCapacity == InitCapacity /\ [][NextCapacity]_vars

\* ------------------------------------------------------------ datagrams of other senders
\* onDataRecv is called for every datagram of sizeof(MeshMsg) bytes or more
\* that the radio receives, whoever sent it.  Stranger is the address of a
\* sender that is none of the devices.
Stranger == MacOf(NumJoiners + 1)

ForeignPayload(type) ==
  IF type = MSG_JOIN_REQ THEN <<Stranger>>
  ELSE IF type = MSG_ASSIGN THEN <<1, 2, MacOf(Master)>>
  ELSE IF type = MSG_SET_DOWN THEN <<Stranger>>
  ELSE IF type = MSG_LOCK THEN LockPayload(<<ASCII_L, ASCII_K>>)
  ELSE <<>>

\* the MeshMsg values tried: every type and one that is none, with and without
\* the ack-requested flag and a msg_id, addressed to each position and to none
ForeignMsgs ==
  {[type |-> ty, flags |-> fl, src_pos |-> UNASSIGNED_POS, dest_pos |-> dp, msg_id |-> id,
    seq |-> MAX_NODES, hops |-> h, payload |-> ForeignPayload(ty)] :
     ty \in 0 .. MSG_LOCK, fl \in {0, FLAG_ACK_REQ}, dp \in Nodes \cup {UNASSIGNED_POS},
     id \in {0, MAX_PENDING_ACK}, h \in 0 .. NumJoiners}

Hear(n, msg) ==
  /\ heard < MaxForeign
  /\ net = {}
  /\ CommitFrom(n, onDataRecv(Here(n, {}), Stranger, msg, 0), net, "recv", msg, Stranger)
  /\ heard' = heard + 1
  /\ UNCHANGED <<now, presses, cycles, irs, boots>>

\* Devices join, and any device receives a datagram of another sender.  No loss
\* except of datagrams a device addresses to itself.
NextOpen ==
  \/ \E n \in Joiners : net = {} /\ LoopButton(n, LOW)
  \/ \E n \in Nodes : \E msg \in ForeignMsgs : Hear(n, msg)
  \/ \E n \in Nodes : Busy(n) /\ LoopPending(n, {})
  \/ \E f \in net : Deliver(f, {}, 0)
  \/ \E f \in net : Loopback(f) /\ Lose(f)
  \/ Elapse(ACK_RETRY_MS, MaxTimeJoin)

SpecOpen == InitJoin /\ [][NextOpen]_vars

\* ------------------------------------------------------------ many devices asking at once
\* The coordinator receives, from devices that are none of those here, the
\* JoinRequest of one address after another, or a Trigger that names position
\* 0 and asks for an Ack.  None of these devices answers, and the devices
\* here, their buttons held, have not asked yet.
FloodJoinReq ==
  [ZeroMsg EXCEPT !.type = MSG_JOIN_REQ, !.src_pos = UNASSIGNED_POS,
                  !.dest_pos = UNASSIGNED_POS, !.msg_id = 1, !.hops = CTRL_HOPS,
                  !.payload = <<Stranger + heard>>]

FloodMsgs ==
  {FloodJoinReq,
   [ZeroMsg EXCEPT !.type = MSG_TRIGGER, !.flags = FLAG_ACK_REQ,
                   !.src_pos = UNASSIGNED_POS, !.dest_pos = 0, !.msg_id = 1,
                   !.seq = MAX_NODES, !.hops = 1]}

Flood(msg) ==
  /\ heard < MaxFlood
  /\ net = {}
  /\ CommitFrom(Master, onDataRecv(Here(Master, {}), Stranger + heard, msg, 0), net,
                "recv", msg, Stranger + heard)
  /\ heard' = heard + 1
  /\ UNCHANGED <<now, presses, cycles, irs, boots>>

NextFlood ==
  \/ \E msg \in FloodMsgs : Flood(msg)
  \/ \E n \in Nodes : Busy(n) /\ LoopPending(n, {})
  \/ \E f \in net : Deliver(f, {}, 0)
  \/ \E f \in net : Loopback(f) /\ Lose(f)
  \/ Elapse(ACK_RETRY_MS, MaxTimeJoin)

SpecFlood == InitJoin /\ [][NextFlood]_vars

\* Many devices ask to join at once and the coordinator is then locked by the
\* remote control.
NextLockFlood ==
  \/ Flood(FloodJoinReq)
  \/ net = {} /\ irs = 0 /\ LoopIR(Master, IR_LOCK)
  \/ \E n \in Nodes : Busy(n) /\ LoopPending(n, {})
  \/ \E f \in net : Deliver(f, {}, 0)
  \/ \E f \in net : Loopback(f) /\ Lose(f)
  \/ Elapse(ACK_RETRY_MS, MaxTimeJoin)

SpecLockFlood == InitJoin /\ [][NextLockFlood]_vars

\* ------------------------------------------------------------ joining again after a power cycle
\* Devices join, the coordinator is switched off and on, and devices hold
\* their buttons a second time.  No loss except of datagrams a device
\* addresses to itself; local inputs come while the air is clear.
NextPowerCycle ==
  \/ \E n \in Joiners : \E b \in {LOW, HIGH} : net = {} /\ LoopButton(n, b)
  \/ net = {} /\ Restart(Master)
  \/ \E n \in Nodes : Busy(n) /\ LoopPending(n, {})
  \/ \E f \in net : Deliver(f, {}, 0)
  \/ \E f \in net : Loopback(f) /\ Lose(f)
  \/ Elapse(JOIN_HOLD_MS, MaxTimeRejoin)

SpecPowerCycle == InitJoin /\ [][NextPowerCycle]_vars

\* ------------------------------------------------------------ a transport that rejects
\* Devices join; esp_now_send may return an error for the first or the second
\* datagram a handler or a pending tick hands it.  No loss except of datagrams
\* a device addresses to itself.
NextReject ==
  \/ \E n \in Joiners : net = {} /\ LoopButton(n, LOW)
  \/ \E n \in Nodes : \E F \in {{}, {1}} : Busy(n) /\ LoopPending(n, F)
  \/ \E f \in net : \E F \in {{}, {1}, {2}} : Deliver(f, F, 0)
  \/ \E f \in net : Loopback(f) /\ Lose(f)
  \/ Elapse(ACK_RETRY_MS, MaxTimeJoin)

SpecReject == InitJoin /\ [][NextReject]_vars

\* ------------------------------------------------------------ save and restart
\* Device 1 as a handler left it after saveStateToPrefs: unassigned or at a
\* position of a ring of up to three; its downstream the broadcast address,
\* the coordinator, device 2, or a device whose address has a byte 0xff;
\* unlocked, or locked with a key.
SavedStates ==
  {[myPos |-> ps[1], ring_size |-> ps[2], downstreamMac |-> d, lock_key |-> k] :
     ps \in {<<-1, 1>>, <<1, 2>>, <<1, 3>>, <<2, 3>>},
     d \in {BROADCAST_MAC, MacOf(Master), MacOf(2), UNICAST_FF_MAC},
     k \in {<<>>, <<ASCII_L, ASCII_K>>}}

SavedCtx(n, v) ==
  LET s0 == [setup(n, EmptyPrefs) EXCEPT !.myPos = v.myPos,
                                         !.ring_size = v.ring_size,
                                         !.downstreamMac = v.downstreamMac]
      s1 == IF v.lock_key = <<>> THEN s0
            ELSE LET s == derive_keys_from_lock([s0 EXCEPT !.lock_key = v.lock_key],
                                                v.lock_key)
                 IN  [s EXCEPT !.esp_pmk = s.derived_pmk, !.locked = TRUE]
  IN  saveStateToPrefs(Ctx(s1, EmptyPrefs, {}, 0))

InitRoundTrip ==
  /\ \E v \in SavedStates :
        /\ node = [n \in Nodes |-> IF n = 1 THEN SavedCtx(n, v).s
                                   ELSE setup(n, InitPrefs(n))]
        /\ prefs = [n \in Nodes |-> IF n = 1 THEN SavedCtx(n, v).p ELSE InitPrefs(n)]
  /\ now = 0
  /\ presses = [n \in Nodes |-> 0]
  /\ InitObs

NextRoundTrip == \E n \in Nodes : Restart(n)

SpecRoundTrip == InitRoundTrip /\ [][NextRoundTrip]_vars

\* ------------------------------------------------------------ Locks of other senders
\* A Lock whose length byte is 0, 1, the 11 bytes the payload has after it,
\* one more, LOCK_KEY_MAXLEN, or one more than that; every byte after the
\* length byte is a letter.
LockLengths ==
  {0, 1, PAYLOAD_LEN - 1, PAYLOAD_LEN, LOCK_KEY_MAXLEN, LOCK_KEY_MAXLEN + 1}

ForeignLocks ==
  {[ZeroMsg EXCEPT !.type = MSG_LOCK, !.src_pos = 0, !.dest_pos = UNASSIGNED_POS,
                   !.msg_id = MAX_PENDING_ACK, !.hops = CTRL_HOPS,
                   !.payload = [i \in 1 .. PAYLOAD_LEN |-> IF i = 1 THEN k ELSE ASCII_K]] :
     k \in LockLengths}

\* Device n receives such a Lock; the memory behind the copy of the message
\* holds zeros or letters.
HearLock(n, msg, junk) ==
  /\ heard < MaxForeign
  /\ net = {}
  /\ CommitFrom(n, onDataRecv(Here(n, {}), Stranger, msg, junk), net, "recv", msg, Stranger)
  /\ heard' = heard + 1
  /\ UNCHANGED <<now, presses, cycles, irs, boots>>

NextLockOpen ==
  \/ \E n \in Joiners : net = {} /\ LoopButton(n, LOW)
  \/ \E n \in Nodes : \E msg \in ForeignLocks : \E junk \in {0, ASCII_L} :
        HearLock(n, msg, junk)
  \/ \E n \in Nodes : Busy(n) /\ LoopPending(n, {})
  \/ \E f \in net : Deliver(f, {}, 0)
  \/ \E f \in net : Loopback(f) /\ Lose(f)
  \/ Elapse(ACK_RETRY_MS, MaxTimeJoin)

SpecLockOpen == InitJoin /\ [][NextLockOpen]_vars

\* ------------------------------------------------------------ the ring over a medium that loses nothing
\* Every datagram is delivered once, those a device addresses to itself too.
NextLossless ==
  \/ \E n \in Joiners : net = {} /\ LoopButton(n, LOW)
  \/ net = {} /\ LoopIR(Master, IR_START_STOP)
  \/ net = {} /\ LoopTrigger(Master)
  \/ \E n \in Nodes : Busy(n) /\ LoopPending(n, {})
  \/ \E f \in net : Deliver(f, {}, 0)
  \/ Elapse(ACK_RETRY_MS, MaxTimeRing)

SpecLossless == InitJoin /\ [][NextLossless]_vars

\* ------------------------------------------------------------ every device's button
\* The joiners hold their buttons down; the button of the device at position 0
\* is pressed, held or released.  No loss except of datagrams a device
\* addresses to itself.
NextAnyButton ==
  \/ \E n \in Joiners : net = {} /\ LoopButton(n, LOW)
  \/ \E b \in {LOW, HIGH} : net = {} /\ LoopButton(Master, b)
  \/ \E n \in Nodes : Busy(n) /\ LoopPending(n, {})
  \/ \E f \in net : Deliver(f, {}, 0)
  \/ \E f \in net : Loopback(f) /\ Lose(f)
  \/ Elapse(JOIN_HOLD_MS, MaxTimeRejoin)

SpecAnyButton == InitJoin /\ [][NextAnyButton]_vars

\* ------------------------------------------------------------ long presses
\* loop() reads the button every 10 ms: before the clock moves on by seconds,
\* the pass that finds a press three seconds old has run.
ButtonSeen(n) ==
  ~(/\ node[n].btn_pressed
    /\ ~node[n].btn_event_sent
    /\ Elapsed(now, node[n].lastBtnPressMs) >= JOIN_HOLD_MS)

ElapseHeld(dt, cap) ==
  /\ \A n \in Nodes : ButtonSeen(n)
  /\ Elapse(dt, cap)

\* Devices keep the button down, or release it and press again, for up to
\* fifteen seconds; no loss except of datagrams a device addresses to itself.
NextHold ==
  \/ \E n \in Joiners : \E b \in {LOW, HIGH} : net = {} /\ LoopButton(n, b)
  \/ \E n \in Nodes : Busy(n) /\ LoopPending(n, {})
  \/ \E f \in net : Deliver(f, {}, 0)
  \/ \E f \in net : Loopback(f) /\ Lose(f)
  \/ ElapseHeld(JOIN_HOLD_MS, MaxTimeHold)

SpecHold == InitJoin /\ [][NextHold]_vars

\* ------------------------------------------------------------ message ids
\* The coordinator after any number of sends: next_msg_id is 1 after setup()
\* and has since taken the values allocateMsgId gives it; the runs start at
\* the first value, in the middle and at the last before the wrap.
IdStarts == {1, UINT16_MAX \div 2, UINT16_MAX}

InitMsgId ==
  /\ prefs = [n \in Nodes |-> InitPrefs(n)]
  /\ \E v \in IdStarts :
        node = [n \in Nodes |-> IF n = Master
                                THEN [setup(n, InitPrefs(n)) EXCEPT !.next_msg_id = v]
                                ELSE setup(n, InitPrefs(n))]
  /\ now = 0
  /\ presses = [n \in Nodes |-> 0]
  /\ InitObs

\* one call of allocateMsgId on device n
Allocate(n) ==
  /\ alloc.count < MaxAllocs
  /\ LET a == allocateMsgId(node[n])
     IN  /\ node' = [node EXCEPT ![n] = a.s]
         /\ alloc' = [first |-> IF alloc.count = 0 THEN a.id ELSE alloc.first,
                      last |-> a.id,
                      count |-> alloc.count + 1]
  /\ ev' = [kind |-> "alloc", n |-> n, msg |-> NoMsg, chg |-> TRUE,
            from |-> MacOf(n), calls |-> 0]
  /\ out' = <<>>
  /\ anim' = <<>>
  /\ UNCHANGED <<prefs, net, now, played, presses, cycles, irs, boots, heard,
                 ctlSent, ctlAcked, txlog, firstAssign, origin, clk>>

NextMsgId == Allocate(Master)

SpecMsgId == InitMsgId /\ [][NextMsgId]_vars

\* ------------------------------------------------------------ the retry clock over the wrap
\* One slot in use with retries left, sent shortly after power-up or shortly
\* before millis() wraps, 49.7 days later.
ClockStarts ==
  {[hi |-> h, lo |-> l] : h \in {0, 65535}, l \in {0, 65536 - ACK_RETRY_MS, 65535}}

\* the time from one pending tick to the next: a millisecond, a tick, just
\* under and just the retry period, 2^16 ms, and nearly the whole range
ClockSteps ==
  {[hi |-> 0, lo |-> 1], [hi |-> 0, lo |-> PENDING_TICK_MS],
   [hi |-> 0, lo |-> ACK_RETRY_MS - 1], [hi |-> 0, lo |-> ACK_RETRY_MS],
   [hi |-> 1, lo |-> 0], [hi |-> 65535, lo |-> 65535 - ACK_RETRY_MS]}

InitWrap ==
  /\ prefs = [n \in Nodes |-> InitPrefs(n)]
  /\ node = [n \in Nodes |-> setup(n, InitPrefs(n))]
  /\ now = 0
  /\ presses = [n \in Nodes |-> 0]
  /\ InitLog
  /\ \E T \in ClockStarts : clk = ClockAt(T)

\* processPendingAcks looks at the slot d after it last did: a resend, accepted
\* by the transport, if the slot is due
TickSlot(d) ==
  /\ clk.ticks < MaxWrapTicks
  /\ LET T == TimeAdd(clk.now, d)
         due == retryDue(millis(T), millis(clk.last))
     IN  clk' = [now |-> T, since |-> clk.last,
                 last |-> IF due THEN T ELSE clk.last,
                 due |-> due, ticks |-> clk.ticks + 1]
  /\ ev' = [kind |-> "tick", n |-> Master, msg |-> NoMsg, chg |-> TRUE,
            from |-> MacOf(Master), calls |-> 0]
  /\ out' = <<>>
  /\ anim' = <<>>
  /\ UNCHANGED <<node, prefs, net, now, played, presses, cycles, irs, boots, heard,
                 ctlSent, ctlAcked, txlog, firstAssign, origin, alloc>>

NextWrap == \E d \in ClockSteps : TickSlot(d)

SpecWrap == InitWrap /\ [][NextWrap]_vars

\* ------------------------------------------------------------ what the claims speak of
\* the last step was device n receiving a datagram of the given type
Received(type) == ev.kind = "recv" /\ ev.msg.type = type

\* the coordinators: the devices at position 0
IsCoordinator(n) == node[n].myPos = 0

\* mac holds a PeerTable position of s
InPeerTable(s, mac) == \E i \in 1 .. s.peerCount : s.peers[i].mac = mac

NoDuplicateAddress(s) ==
  \A i, j \in 1 .. s.peerCount : s.peers[i].mac = s.peers[j].mac => i = j

\* ------------------------------------------------------------ C1
\* C1: on the coordinator no address holds two PeerTable positions, and a
\* JoinRequest from an address already in the PeerTable leaves peerCount and
\* every PeerTable entry as they were.
C1_RepeatedJoinKeepsTable ==
  [][/\ \A n \in Nodes : IsCoordinator(n) => NoDuplicateAddress(node[n])
     /\ \A n \in Nodes : IsCoordinator(n)' => NoDuplicateAddress(node'[n])
     /\ (/\ Received(MSG_JOIN_REQ)'
         /\ IsCoordinator(ev'.n)
         /\ InPeerTable(node[ev'.n], ev'.msg.payload[1]))
        => /\ node'[ev'.n].peerCount = node[ev'.n].peerCount
           /\ node'[ev'.n].peers = node[ev'.n].peers]_vars

\* the coordinator, with three table entries, has just answered a JoinRequest of
\* the device at position 1 with the one Assign of the idempotent path
C1_Witness ==
  /\ Received(MSG_JOIN_REQ)
  /\ IsCoordinator(ev.n)
  /\ node[ev.n].peerCount = 3
  /\ node[ev.n].peers[2].mac = ev.msg.payload[1]
  /\ Len(out) = 1
  /\ out[1].msg.type = MSG_ASSIGN

\* ------------------------------------------------------------ C2
\* C2 as stated: the Assign sent in reply to a repeated JoinRequest carries the
\* payload of the first Assign sent to that address: position, ring size and
\* downstream address.
C2_ReplyEqualsFirst ==
  (/\ Received(MSG_JOIN_REQ)
   /\ IsCoordinator(ev.n)
   /\ Len(out) = 1
   /\ out[1].msg.type = MSG_ASSIGN)
  => out[1].msg.payload = firstAssign[out[1].dst]

\* C2 amended: the repeated reply carries the position and the downstream address
\* of the first Assign; its ring size is the ring_size the coordinator holds now.
C2_ReplyKeepsPositionAndDownstream ==
  (/\ Received(MSG_JOIN_REQ)
   /\ IsCoordinator(ev.n)
   /\ Len(out) = 1
   /\ out[1].msg.type = MSG_ASSIGN)
  => /\ out[1].msg.payload[1] = firstAssign[out[1].dst][1]
     /\ out[1].msg.payload[3] = firstAssign[out[1].dst][3]
     /\ out[1].msg.payload[2] = U8(node[ev.n].ring_size)

\* a repeated reply whose ring size is no longer that of the first Assign
C2_Witness ==
  /\ Received(MSG_JOIN_REQ)
  /\ IsCoordinator(ev.n)
  /\ Len(out) = 1
  /\ out[1].msg.type = MSG_ASSIGN
  /\ out[1].msg.payload[2] # firstAssign[out[1].dst][2]

\* ------------------------------------------------------------ C3
\* the device that owns an address, and the downstream pointer it holds
DeviceOf(mac) == CHOOSE n \in Nodes : MacOf(n) = mac

DownstreamOf(mac) == node[DeviceOf(mac)].downstreamMac

\* every Assign and SetDown a coordinator has sent so far has been acknowledged
AllCtlAcked == ctlSent # {} /\ ctlSent \subseteq ctlAcked

\* the downstream pointers of the members of coordinator m's ring lead from each
\* position to the next and from the last position back to position 0
RingClosed(m) ==
  \A i \in 1 .. node[m].peerCount :
     DownstreamOf(node[m].peers[i].mac) = node[m].peers[(i % node[m].peerCount) + 1].mac

\* C3: once every Assign and SetDown of the joins made so far has been delivered
\* and acknowledged, the downstream pointers of the coordinator and of the joined
\* nodes form one closed cycle through the positions in order.
C3_RingClosure ==
  \A m \in Nodes :
     (IsCoordinator(m) /\ node[m].peerCount > 1 /\ net = {} /\ AllCtlAcked) => RingClosed(m)

\* ------------------------------------------------------------ C10
\* C10: with peers at positions 1 and 2, once every Assign and SetDown the
\* coordinator sent has been acknowledged, position 1's downstream is position
\* 2's address and position 2's downstream is the coordinator's address.
C10_TwoPeersDownstream ==
  (node[Master].peerCount = 3 /\ AllCtlAcked)
  => /\ DownstreamOf(node[Master].peers[2].mac) = node[Master].peers[3].mac
     /\ DownstreamOf(node[Master].peers[3].mac) = node[Master].myMac

\* ------------------------------------------------------------ C7
\* s holds a pending slot in use for msg_id
SlotInUse(s, msg_id) ==
  \E i \in 1 .. MAX_PENDING_ACK : s.pending[i].used /\ s.pending[i].msg_id = msg_id

\* C7: an Ack whose message_id matches no slot in use changes neither the globals
\* of the receiver (pending pool, ring state, PeerTable) nor the Preferences, and
\* no message is sent.
C7_StrayAckIsNoOp ==
  [][(Received(MSG_ACK)' /\ ~SlotInUse(node[ev'.n], ev'.msg.msg_id))
     => /\ node' = node
        /\ prefs' = prefs
        /\ out' = <<>>]_vars

\* a device with a message still pending has just received an Ack that matched
\* none of its slots
C7_Witness ==
  /\ Received(MSG_ACK)
  /\ ~ev.chg
  /\ \E i \in 1 .. MAX_PENDING_ACK : node[ev.n].pending[i].used

\* ------------------------------------------------------------ C6
\* the pending tick has just run on device ev.n
Ticked == ev.kind = "tick"

\* slot i of device n is in use and its retry interval has run out
Due(n, i) ==
  /\ node[n].pending[i].used
  /\ Elapsed(now, node[n].pending[i].last_sent_ms) >= ACK_RETRY_MS

\* every slot in use has been transmitted once plus once per retry spent, the
\* last time at last_sent_ms
SlotAccounting ==
  \A n \in Nodes : \A i \in 1 .. MAX_PENDING_ACK :
     node[n].pending[i].used
     => /\ node[n].pending[i].retries_left \in 0 .. ACK_RETRIES
        /\ txlog[n][i].count = 1 + ACK_RETRIES - node[n].pending[i].retries_left
        /\ txlog[n][i].at = node[n].pending[i].last_sent_ms

\* C6: a slot in use has been transmitted once plus once per retry spent, last at
\* last_sent_ms; the pending tick resends only stored messages of slots whose
\* retry interval has run out and that have retries left, to the stored
\* destination; it frees a slot only when the interval has run out after the
\* ACK_RETRIES-th resend, always frees it then, and never takes a slot.
C6_RetryBound ==
  [][/\ SlotAccounting
     /\ SlotAccounting'
     /\ Ticked'
        => LET n == ev'.n
           IN  /\ \A j \in 1 .. Len(out') :
                    \E i \in 1 .. MAX_PENDING_ACK :
                       /\ Due(n, i)
                       /\ node[n].pending[i].retries_left > 0
                       /\ out'[j].msg = node[n].pending[i].msg
                       /\ out'[j].dst = node[n].pending[i].dest_mac
                       /\ node'[n].pending[i].retries_left = node[n].pending[i].retries_left - 1
               /\ \A i \in 1 .. MAX_PENDING_ACK :
                    /\ node'[n].pending[i].used => node[n].pending[i].used
                    /\ (node[n].pending[i].used /\ ~node'[n].pending[i].used)
                       => /\ Due(n, i)
                          /\ node[n].pending[i].retries_left = 0
                          /\ txlog[n][i].count = 1 + ACK_RETRIES
                    /\ (Due(n, i) /\ node[n].pending[i].retries_left = 0)
                       => ~node'[n].pending[i].used
                    /\ node'[n].pending[i].msg = node[n].pending[i].msg
                    /\ node'[n].pending[i].dest_mac = node[n].pending[i].dest_mac]_vars

\* the coordinator's Assign and SetDown were never acknowledged and the tick has
\* freed the last of their slots
C6_Witness ==
  /\ Ticked
  /\ ev.n = Master
  /\ out = <<>>
  /\ ctlSent # {}
  /\ ctlAcked = {}
  /\ ~Busy(Master)

\* ------------------------------------------------------------ C4
\* the device at position i of coordinator m's PeerTable
MemberAt(m, i) == DeviceOf(node[m].peers[i + 1].mac)

TriggerOnAir == \E f \in net : f.msg.type = MSG_TRIGGER

\* C4: a Trigger the coordinator originated in a ring of K >= 1 joined nodes, all
\* of whose Assign and SetDown had been acknowledged, has, once no Trigger is on
\* the air any more, run the animation of every position 1 .. K and come back to
\* position 0.
C4_FullCycle ==
  \A o \in origin :
     (o.settled /\ o.K >= 1 /\ ~TriggerOnAir)
     => /\ \A i \in 1 .. o.K :
             [node |-> MemberAt(Master, i), seq |-> o.seq, via |-> "msg"] \in played
        /\ [node |-> Master, seq |-> o.seq, via |-> "msg"] \in played

\* ------------------------------------------------------------ C5
\* C5: a device that receives a Trigger with hops = 0 plays no animation and
\* sends nothing, whatever dest_pos says.
C5_TTLTermination ==
  (Received(MSG_TRIGGER) /\ ev.msg.hops = 0) => (anim = <<>> /\ out = <<>> /\ ~ev.chg)

\* a Trigger with hops = 0 has reached the device at the position it names
C5_Witness ==
  /\ Received(MSG_TRIGGER)
  /\ ev.msg.hops = 0
  /\ ev.msg.dest_pos = node[ev.n].myPos

\* ------------------------------------------------------------ C8
\* C8: a JoinRequest received by a locked coordinator changes none of its globals
\* (PeerTable, ring_size, pending pool) nor the Preferences, and nothing is sent.
C8_LockGating ==
  [][(Received(MSG_JOIN_REQ)' /\ IsCoordinator(ev'.n) /\ node[ev'.n].locked)
     => /\ node' = node
        /\ prefs' = prefs
        /\ out' = <<>>]_vars

\* the locked coordinator has received the JoinRequest of a device that holds a
\* position of its PeerTable
C8_Witness ==
  /\ Received(MSG_JOIN_REQ)
  /\ IsCoordinator(ev.n)
  /\ node[ev.n].locked
  /\ InPeerTable(node[ev.n], ev.msg.payload[1])
  /\ out = <<>>

\* ------------------------------------------------------------ C9
\* C9: a trigger-timer cycle of a coordinator with ring_size = 1 and only itself
\* in the PeerTable plays the local animation once, sends nothing and leaves the
\* pending pool as it was.
C9_AloneCoordinator ==
  [][(/\ ev'.kind = "timer"
      /\ node[ev'.n].ring_size = 1
      /\ node[ev'.n].peerCount = 1)
     => /\ Len(anim') = 1
        /\ anim'[1].node = ev'.n
        /\ anim'[1].via = "timer"
        /\ out' = <<>>
        /\ net' = net
        /\ node'[ev'.n].pending = node[ev'.n].pending]_vars

\* the timer of a coordinator that is alone in its ring has just fired for the
\* second time
C9_Witness ==
  /\ ev.kind = "timer"
  /\ cycles = 2
  /\ node[ev.n].ring_size = 1
  /\ node[ev.n].peerCount = 1
  /\ Len(anim) = 1

\* ------------------------------------------------------------ C11
\* device n has just received a datagram of one of the given types
ReceivedAt(n, types) == ev.kind = "recv" /\ ev.n = n /\ ev.msg.type \in types

\* C11: a device's position leaves -1 and its ring_size leaves 1 only in a step
\* in which it receives an Assign, whose values it takes; its downstream address
\* leaves the broadcast address only in a step in which it receives an Assign or
\* a SetDown.  So a requester whose Assign was never delivered stays unassigned
\* when the coordinator gives the Assign up.
C11_AssignedOnlyByMessage ==
  [][\A n \in Nodes :
       node[n].myPos = -1
       => /\ node'[n].myPos # -1
             => /\ ReceivedAt(n, {MSG_ASSIGN})'
                /\ node'[n].myPos = ev'.msg.payload[1]
                /\ node'[n].ring_size = ev'.msg.payload[2]
                /\ node'[n].downstreamMac = ev'.msg.payload[3]
          /\ (node[n].ring_size = 1 /\ node'[n].ring_size # 1)
             => ReceivedAt(n, {MSG_ASSIGN})'
          /\ (node[n].downstreamMac = BROADCAST_MAC /\ node'[n].downstreamMac # BROADCAST_MAC)
             => ReceivedAt(n, {MSG_ASSIGN, MSG_SET_DOWN})']_vars

\* the coordinator has given up the Assign and the SetDown of a join, none ever
\* acknowledged, and the requester is at its unassigned values
C11_Witness ==
  /\ Ticked
  /\ ev.n = Master
  /\ node[Master].peerCount = 2
  /\ ~Busy(Master)
  /\ ctlAcked = {}
  /\ node[1].myPos = -1
  /\ node[1].ring_size = 1
  /\ node[1].downstreamMac = BROADCAST_MAC

\* ------------------------------------------------------------ C13
\* peers[0 .. peerCount-1] hold the positions 0 .. peerCount-1 in order, the
\* first one the coordinator's own address
PeerTableContiguous(s) ==
  /\ s.peerCount >= 1
  /\ s.peerCount <= Len(s.peers)
  /\ \A i \in 1 .. s.peerCount : s.peers[i].pos = i - 1
  /\ s.peers[1].mac = s.myMac

\* C13: on the coordinator, in every reachable state, after a restart from
\* Preferences too, the PeerTable positions are exactly 0 .. peerCount-1 with
\* position 0 the coordinator's own address, and ring_size = peerCount.
C13_TableMatchesRingSize ==
  \A n \in Nodes :
    IsCoordinator(n) => PeerTableContiguous(node[n]) /\ node[n].ring_size = node[n].peerCount

\* ------------------------------------------------------------ C14
\* C14: at every device, in every reachable state, after a restart from
\* Preferences too: locked implies that lock_key is not empty and that the
\* network key derived from it is the one installed with the transport.
C14_LockedHasKeyInstalled ==
  \A n \in Nodes :
    node[n].locked => /\ node[n].lock_key # <<>>
                      /\ node[n].esp_pmk = PmkOf(node[n].lock_key)

\* ------------------------------------------------------------ C12
\* the step is device n receiving a JoinRequest for an address its PeerTable
\* does not hold
NewJoinRequestAt(n) ==
  /\ ReceivedAt(n, {MSG_JOIN_REQ})'
  /\ ~InPeerTable(node[n], ev'.msg.payload[1])

\* C12: on the coordinator peerCount grows by exactly one in a step that
\* handles a JoinRequest from an address not in the PeerTable while unlocked
\* and below MAX_NODES, and is the same after every other step (a message, a
\* tick, an input, a restart); it never exceeds MAX_NODES, and a JoinRequest
\* from a new address at capacity changes nothing and sends nothing.
C12_PeerCountGrowsByJoinOnly ==
  [][\A n \in Nodes :
       IsCoordinator(n)
       => /\ node'[n].peerCount =
               IF NewJoinRequestAt(n) /\ ~node[n].locked /\ node[n].peerCount < MAX_NODES
               THEN node[n].peerCount + 1
               ELSE node[n].peerCount
          /\ node'[n].peerCount <= MAX_NODES
          /\ (NewJoinRequestAt(n) /\ node[n].peerCount >= MAX_NODES)
             => /\ out' = <<>>
                /\ node'[n] = node[n]
                /\ prefs'[n] = prefs[n]]_vars

\* the unlocked coordinator, its PeerTable full, has just received the
\* JoinRequest of a device the table does not hold
C12_Witness ==
  /\ ReceivedAt(Master, {MSG_JOIN_REQ})
  /\ node[Master].peerCount = MAX_NODES
  /\ ~node[Master].locked
  /\ ~InPeerTable(node[Master], ev.msg.payload[1])
  /\ \E n \in Joiners : InPeerTable(node[Master], MacOf(n))

\* ------------------------------------------------------------ C15
\* the Acks among the datagrams sent in the last step
AcksOut == {i \in 1 .. Len(out) : out[i].msg.type = MSG_ACK}

\* C15: a device that receives a message that is not an Ack and carries the
\* ack-requested flag sends, in handling it, exactly one Ack, with the
\* message's msg_id, to the address it came from; whatever the message's type
\* and whether the device is the coordinator or not.
C15_FlaggedMessageAcked ==
  (/\ ev.kind = "recv"
   /\ ev.msg.type \in {MSG_JOIN_REQ, MSG_ASSIGN, MSG_SET_DOWN, MSG_TRIGGER, MSG_PING, MSG_LOCK}
   /\ (ev.msg.flags % 2) = FLAG_ACK_REQ)
  => /\ Cardinality(AcksOut) = 1
     /\ \A i \in AcksOut : out[i].msg.msg_id = ev.msg.msg_id /\ out[i].dst = ev.from

\* ------------------------------------------------------------ C16
\* C16: a device that receives an Ack sends nothing in handling it; no Ack is
\* sent or is on the air with the ack-requested flag; no slot of a pending pool
\* holds an Ack.
C16_NoAckChains ==
  /\ Received(MSG_ACK) => out = <<>>
  /\ \A i \in AcksOut : (out[i].msg.flags % 2) # FLAG_ACK_REQ
  /\ \A f \in net : f.msg.type = MSG_ACK => (f.msg.flags % 2) # FLAG_ACK_REQ
  /\ \A n \in Nodes : \A i \in 1 .. MAX_PENDING_ACK :
        node[n].pending[i].used => node[n].pending[i].msg.type # MSG_ACK

\* a joined device has forwarded a Trigger that asked for an Ack (nothing else
\* puts a message into its pool) and has just received the Ack of the next
\* device, which cleared the slot
C16_Witness ==
  /\ Received(MSG_ACK)
  /\ ev.n \in Joiners
  /\ ev.chg
  /\ ev.from \in Macs

\* ------------------------------------------------------------ C19
\* the Triggers among the datagrams sent in the last step
TriggersOut == {i \in 1 .. Len(out) : out[i].msg.type = MSG_TRIGGER}

\* the step is device n receiving a Trigger with hops left that names n's position
TriggerForMe(n) ==
  /\ ReceivedAt(n, {MSG_TRIGGER})'
  /\ ev'.msg.hops > 0
  /\ ev'.msg.dest_pos = node[n].myPos

\* the device runs its animation once, before any send, and sends exactly one
\* Trigger: to its downstream address, with hops one less, the msg_id taken
\* from its own counter, the same seq, src_pos its position, dest_pos =
\* (position + 1) mod ring_size, and the flag as received
ForwardedOnce(n) ==
  /\ Len(anim') = 1
  /\ anim'[1].node = n /\ anim'[1].seq = ev'.msg.seq /\ anim'[1].sent = 0
  /\ Cardinality(TriggersOut') = 1
  /\ \A i \in TriggersOut' :
       LET fwd == out'[i].msg
       IN  /\ out'[i].dst = node[n].downstreamMac
           /\ fwd.hops = ev'.msg.hops - 1
           /\ fwd.msg_id = node[n].next_msg_id
           /\ fwd.seq = ev'.msg.seq
           /\ fwd.src_pos = node[n].myPos
           /\ fwd.dest_pos = (node[n].myPos + 1) % node[n].ring_size
           /\ (fwd.flags % 2) = (ev'.msg.flags % 2)

\* the Trigger forwarded in the step has taken a slot that was free
ForwardQueued(n) ==
  \E i \in TriggersOut' : \E j \in FreeSlots(node[n]) :
     /\ node'[n].pending[j].used
     /\ node'[n].pending[j].msg = out'[i].msg
     /\ node'[n].pending[j].dest_mac = out'[i].dst

UsedSlots(n) == {i \in 1 .. MAX_PENDING_ACK : node[n].pending[i].used}

\* C17: a pool never has more than MAX_PENDING_ACK slots in use.  A device
\* whose slots are all in use and that handles a message other than an Ack
\* leaves every slot as it was, whatever it sends in handling it; and what a
\* pending tick sends is the message of a slot in use, to that slot's
\* destination, so a message that got no slot is never sent again.
C17_FullPoolDropsNewRequest ==
  [][\A n \in Nodes :
       /\ Cardinality(UsedSlots(n)') <= MAX_PENDING_ACK
       /\ (UsedSlots(n) = 1 .. MAX_PENDING_ACK /\ ev'.kind = "recv" /\ ev'.n = n
           /\ ev'.msg.type # MSG_ACK)
          => node'[n].pending = node[n].pending
       /\ (ev'.kind = "tick" /\ ev'.n = n)
          => \A i \in 1 .. Len(out') :
               \E j \in UsedSlots(n) : /\ node[n].pending[j].msg = out'[i].msg
                                       /\ node[n].pending[j].dest_mac = out'[i].dst]_vars

\* the coordinator, all its slots in use, has just handled the JoinRequest of
\* a new address: the Assign and the SetDown went out and neither has a slot
C17_Witness ==
  /\ ReceivedAt(Master, {MSG_JOIN_REQ})
  /\ UsedSlots(Master) = 1 .. MAX_PENDING_ACK
  /\ Len(out) = 2
  /\ \A i \in 1 .. Len(out) :
       \A j \in 1 .. MAX_PENDING_ACK : node[Master].pending[j].msg # out[i].msg

\* ------------------------------------------------------------ C18
\* the step is the unlocked coordinator n, below capacity, handling the
\* JoinRequest of a new address
NewJoinHandledBy(n) ==
  /\ IsCoordinator(n)
  /\ NewJoinRequestAt(n)
  /\ ~node[n].locked
  /\ node[n].peerCount < MAX_NODES

\* slot of device n that holds, after the step, the i-th datagram sent in it
RegisteredNow(n, i) ==
  \E j \in 1 .. MAX_PENDING_ACK :
     /\ node'[n].pending[j].used
     /\ node'[n].pending[j].msg = out'[i].msg
     /\ node'[n].pending[j].dest_mac = out'[i].dst
     /\ node'[n].pending[j].retries_left = ACK_RETRIES

\* the new position is the peerCount before the join; the Assign goes to the
\* requester with that position, the new peerCount as ring size and the
\* coordinator's address as downstream; the SetDown goes to the address at
\* position new - 1 with the requester's address
JoinAnswer(n) ==
  LET newpos == node[n].peerCount
      requester == ev'.msg.payload[1]
  IN  /\ node'[n].peerCount = newpos + 1
      /\ node'[n].peers[newpos + 1] = [mac |-> requester, pos |-> newpos]
      /\ Len(out') = 2
      /\ out'[1].msg.type = MSG_ASSIGN
      /\ out'[1].dst = requester
      /\ out'[1].msg.payload = <<newpos, newpos + 1, node[n].myMac>>
      /\ out'[2].msg.type = MSG_SET_DOWN
      /\ out'[2].dst = node[n].peers[newpos].mac
      /\ out'[2].msg.payload = <<requester>>

RingProtocolState(s) == <<s.myPos, s.ring_size, s.downstreamMac, s.locked, s.lock_key>>

\* C20: a device that receives a Trigger whose dest_pos is not its position
\* runs no animation, sends no Trigger, and keeps its position, ring size,
\* downstream address, locked and lock key, in memory and in Preferences.  A
\* device at position -1 does so for every dest_pos 0 .. 255.
C20_TriggerNotForMeDropped ==
  [][\A n \in Nodes :
       (ReceivedAt(n, {MSG_TRIGGER})' /\ ev'.msg.dest_pos # node[n].myPos)
       => /\ anim' = <<>>
          /\ played' = played
          /\ TriggersOut' = {}
          /\ RingProtocolState(node'[n]) = RingProtocolState(node[n])
          /\ node'[n].pending = node[n].pending
          /\ prefs'[n] = prefs[n]]_vars

\* a device at position -1 has received a Trigger with hops left and
\* dest_pos = 255 that asked for an Ack: the Ack is all it sent
C20_Witness ==
  /\ Received(MSG_TRIGGER)
  /\ node[ev.n].myPos = -1
  /\ ev.msg.dest_pos = UNASSIGNED_POS
  /\ ev.msg.hops > 0
  /\ AcksOut # {}
  /\ anim = <<>>

\* ------------------------------------------------------------ C21
\* the step is the coordinator n acting on the remote control's lock code
LockInitiatedBy(n) == ev'.kind = IR_LOCK /\ ev'.n = n

\* the Locks among the datagrams sent in the last step
LocksOut == {i \in 1 .. Len(out) : out[i].msg.type = MSG_LOCK}

\* after the step: locked with a key; every address of the PeerTable but the
\* broadcast address is a transport peer with encryption and the derived peer
\* key, and none of them is one without; locked and lock_key are in
\* Preferences; one Lock, broadcast, carries the key's length and bytes
LockedAndAnnounced(n) ==
  LET s == node'[n]
      macs == {s.peers[i].mac : i \in 1 .. s.peerCount} \ {BROADCAST_MAC}
  IN  /\ s.locked
      /\ s.lock_key # <<>>
      /\ \A m \in macs :
           /\ \E e \in s.esp_peers :
                e.peer_addr = m /\ e.encrypt /\ e.lmk = LmkOf(s.lock_key)
           /\ \A e \in s.esp_peers : e.peer_addr = m => e.encrypt
      /\ {"locked", "lockk"} \subseteq prefs'[n].has
      /\ prefs'[n].locked
      /\ prefs'[n].lockk = s.lock_key
      /\ Cardinality(LocksOut') = 1
      /\ \A i \in LocksOut' :
           /\ out'[i].dst = BROADCAST_MAC
           /\ out'[i].msg.payload[1] = Len(s.lock_key)
           /\ \A k \in 1 .. Len(s.lock_key) : out'[i].msg.payload[k + 1] = s.lock_key[k]

\* the Lock sent in the step has taken a slot that was free
LockQueued(n) ==
  \E i \in LocksOut' : \E j \in FreeSlots(node[n]) :
     /\ node'[n].pending[j].used
     /\ node'[n].pending[j].msg = out'[i].msg
     /\ node'[n].pending[j].dest_mac = BROADCAST_MAC
     /\ node'[n].pending[j].retries_left = ACK_RETRIES

\* C21 as stated: after the coordinator has acted on the lock code it is
\* locked and has announced the key as LockedAndAnnounced says, and the Lock
\* is registered in its pending pool.
C21_LockInitiated ==
  [][\A n \in Nodes : LockInitiatedBy(n) => LockedAndAnnounced(n) /\ LockQueued(n)]_vars

\* C21 amended: the Lock is registered if and only if a slot was free.
C21_LockInitiatedQueuedIfFree ==
  [][\A n \in Nodes :
       LockInitiatedBy(n)
       => /\ LockedAndAnnounced(n)
          /\ LockQueued(n) <=> FreeSlots(node[n]) # {}]_vars

\* the coordinator, with peers in its table and all its slots in use, has
\* acted on the lock code: the Lock went out and has no slot
C21_Witness ==
  /\ ev.kind = IR_LOCK
  /\ node[Master].peerCount > NumJoiners
  /\ LocksOut # {}
  /\ \A j \in 1 .. MAX_PENDING_ACK :
       node[Master].pending[j].used /\ node[Master].pending[j].msg.type # MSG_LOCK

\* ------------------------------------------------------------ C22
\* the step is device n receiving an Ack that frees the slot of a Lock
LockSlotFreedByAck(n) ==
  /\ ReceivedAt(n, {MSG_ACK})'
  /\ \E j \in 1 .. MAX_PENDING_ACK :
        /\ node[n].pending[j].used
        /\ node[n].pending[j].msg.type = MSG_LOCK
        /\ ~node'[n].pending[j].used

\* C22: the slot of the coordinator's Lock stays in use until every peer of the
\* PeerTable has acknowledged the Lock.  A peer acknowledges a Lock only after
\* it has taken the key, so when an Ack frees the slot every other device of
\* the PeerTable is locked with the coordinator's key.
C22_LockSlotHeldUntilAllAcked ==
  [][\A n \in Nodes :
       LockSlotFreedByAck(n)
       => \A i \in 2 .. node[n].peerCount :
            LET d == DeviceOf(node[n].peers[i].mac)
            IN  node'[d].locked /\ node'[d].lock_key = node[n].lock_key]_vars

\* ------------------------------------------------------------ C23
\* the lock string a Lock carries: payload[0] its length, not 0 and within the
\* payload, then that many bytes, none of them 0
LockStringOf(msg) == SubSeq(msg.payload, 2, msg.payload[1] + 1)

ValidLockString(msg) ==
  /\ Len(msg.payload) = PAYLOAD_LEN
  /\ msg.payload[1] \in 1 .. (PAYLOAD_LEN - 1)
  /\ \A k \in 1 .. msg.payload[1] : msg.payload[k + 1] # 0

\* C23: a device that is not the coordinator and receives a Lock with a valid
\* lock string takes exactly that string as lock_key, is locked, has both in
\* Preferences, sends one Ack with the Lock's msg_id to the sender, and keeps
\* its position, ring size and downstream address.  So the lock_key of every
\* locked device that is not the coordinator is the key the coordinator
\* broadcast.
C23_LockAdopted ==
  [][/\ \A n \in Nodes :
          (ReceivedAt(n, {MSG_LOCK})' /\ node[n].myPos # 0 /\ ValidLockString(ev'.msg))
          => /\ node'[n].lock_key = LockStringOf(ev'.msg)
             /\ node'[n].locked
             /\ {"locked", "lockk"} \subseteq prefs'[n].has
             /\ prefs'[n].locked
             /\ prefs'[n].lockk = LockStringOf(ev'.msg)
             /\ Cardinality(AcksOut') = 1
             /\ \A i \in AcksOut' :
                  out'[i].msg.msg_id = ev'.msg.msg_id /\ out'[i].dst = ev'.from
             /\ node'[n].myPos = node[n].myPos
             /\ node'[n].ring_size = node[n].ring_size
             /\ node'[n].downstreamMac = node[n].downstreamMac
     /\ \A n \in Nodes :
          (node'[n].myPos # 0 /\ node'[n].locked)
          => \E m \in Nodes : /\ IsCoordinator(m)'
                              /\ node'[m].locked
                              /\ node'[n].lock_key = node'[m].lock_key]_vars

\* a joined device has just taken the coordinator's key from a Lock and
\* answered it
C23_Witness ==
  /\ Received(MSG_LOCK)
  /\ node[ev.n].myPos > 0
  /\ node[ev.n].locked
  /\ node[ev.n].lock_key = LockKeyAt(now)
  /\ AcksOut # {}

\* ------------------------------------------------------------ C24
\* the button of n is down, has been for JOIN_HOLD_MS, and this press has not
\* caused its event yet
JoinHoldDue(n) ==
  /\ node[n].btn_pressed
  /\ ~node[n].btn_event_sent
  /\ Elapsed(now, node[n].lastBtnPressMs) >= JOIN_HOLD_MS
  /\ Elapsed(now, node[n].lastBtnPressMs) < FACTORY_RESET_MS

JoinRequestsOut == {i \in 1 .. Len(out) : out[i].msg.type = MSG_JOIN_REQ}

\* the step is a pass of n's button section that reads the button down
ButtonPassDown(n) ==
  /\ ev'.kind = "button"
  /\ ev'.n = n
  /\ node'[n].btn_pressed

\* C24: a pass of the button section that finds the button held for
\* JOIN_HOLD_MS leaves the device at position -1 with ring size 1 and the
\* broadcast address downstream, has that in Preferences, and sends one
\* JoinRequest, broadcast, carrying the device's own address, with no slot of
\* the pool taken for it.  A JoinRequest is sent by no other step, and the
\* press that caused one causes no second: the mark it sets is cleared only
\* by a new press.
C24_JoinHold ==
  [][\A n \in Nodes :
       /\ (JoinHoldDue(n) /\ ButtonPassDown(n))
          => /\ node'[n].myPos = -1
             /\ node'[n].ring_size = 1
             /\ node'[n].downstreamMac = BROADCAST_MAC
             /\ {"pos", "ringsz", "down"} \subseteq prefs'[n].has
             /\ prefs'[n].pos = -1
             /\ prefs'[n].ringsz = 1
             /\ prefs'[n].down = BROADCAST_MAC
             /\ Len(out') = 1
             /\ out'[1].msg.type = MSG_JOIN_REQ
             /\ out'[1].dst = BROADCAST_MAC
             /\ out'[1].msg.payload[1] = node[n].myMac
             /\ (out'[1].msg.flags % 2) = 0
             /\ node'[n].pending = node[n].pending
             /\ node'[n].btn_event_sent
       /\ (ev'.n = n /\ ev' # ev /\ JoinRequestsOut' # {})
          => JoinHoldDue(n) /\ ButtonPassDown(n)
       /\ (node[n].btn_event_sent /\ ~node'[n].btn_event_sent)
          => ~node[n].btn_pressed /\ node'[n].btn_pressed]_vars

\* a device that had joined has held its button a second time: it is
\* unassigned again and its JoinRequest is on the air
C24_Witness ==
  /\ ev.kind = "button"
  /\ ev.n \in Joiners
  /\ presses[ev.n] = 2
  /\ InPeerTable(node[Master], MacOf(ev.n))
  /\ node[ev.n].myPos = -1
  /\ prefs[ev.n].pos = -1
  /\ JoinRequestsOut # {}
  /\ UsedSlots(ev.n) = {}

\* ------------------------------------------------------------ C25
\* the last pass of n's button section read the button down, and the press is
\* FACTORY_RESET_MS old
HeldForReset(n) ==
  /\ node[n].btn_pressed
  /\ Elapsed(now, node[n].lastBtnPressMs) >= FACTORY_RESET_MS

\* C25: when the button has been down for FACTORY_RESET_MS, the pass of the
\* button section that reads it still down erases the Preferences and
\* restarts the device.
C25_FactoryResetHeld ==
  \A n \in Nodes :
    HeldForReset(n)
    => LET c == loopButton(n, Here(n, {}), LOW)
       IN  c.p = EmptyPrefs /\ c.s = setup(n, EmptyPrefs)

\* ------------------------------------------------------------ C26
\* C26: a message a device tracks for its Ack -- one held in a slot in use of
\* its pool, as the coordinator's Assign, SetDown and Lock are -- carries the
\* ack-requested flag.
C26_TrackedCarriesFlag ==
  \A n \in Nodes : \A j \in UsedSlots(n) :
    node[n].pending[j].msg.type \in {MSG_ASSIGN, MSG_SET_DOWN, MSG_LOCK}
    => (node[n].pending[j].msg.flags % 2) = FLAG_ACK_REQ

\* ------------------------------------------------------------ C27
\* what n would load from its Preferences is what it holds in memory: the
\* five fields of its state and, on the coordinator, the PeerTable
PersistedState(n) ==
  RingProtocolState(loadStateFromPrefs(BootGlobals(n), prefs[n]))
    = RingProtocolState(node[n])

PersistedPeers(n) ==
  LET l == loadMasterPeersFromPrefs(BootGlobals(n), prefs[n])
  IN  /\ l.peerCount = node[n].peerCount
      /\ \A i \in 1 .. node[n].peerCount : l.peers[i].mac = node[n].peers[i].mac

\* the step is one of n's handlers -- of an Assign, a SetDown, a Lock or a
\* JoinRequest received, of the button, of the remote's lock command -- and it
\* changed n's state or PeerTable
MutatedBy(n) ==
  /\ ev'.n = n
  /\ \/ ReceivedAt(n, {MSG_ASSIGN, MSG_SET_DOWN, MSG_LOCK, MSG_JOIN_REQ})'
     \/ ev'.kind \in {"button", IR_LOCK}
  /\ \/ RingProtocolState(node'[n]) # RingProtocolState(node[n])
     \/ node'[n].peerCount # node[n].peerCount
     \/ node'[n].peers # node[n].peers

\* C27: when a handler has changed a device's position, ring size, downstream
\* address, locked or lock key, or the coordinator's PeerTable, Preferences
\* hold the new values: the five fields on every device, and the PeerTable on
\* the coordinator.
C27_PersistedAfterMutation ==
  [][\A n \in Nodes :
       MutatedBy(n)
       => /\ PersistedState(n)'
          /\ IsCoordinator(n)' => PersistedPeers(n)']_vars

\* ------------------------------------------------------------ C28
\* C28: allocateMsgId never returns 0; the id it returns is the one before
\* plus one, and 1 after 65535; and within 65535 calls in a row, from
\* wherever the run starts, the first id is not returned again, so the ids
\* of any 65535 calls in a row are pairwise distinct.
C28_MsgIdsCycle ==
  [][alloc' # alloc
     => /\ alloc'.last # 0
        /\ alloc'.last \in 1 .. UINT16_MAX
        /\ alloc.count > 0
           => alloc'.last = IF alloc.last = UINT16_MAX THEN 1 ELSE alloc.last + 1
        /\ (alloc.count > 0 /\ alloc'.count <= UINT16_MAX)
           => alloc'.last # alloc'.first]_vars

\* 65535 calls in a row that went over the wrap from 65535 to 1
C28_Witness ==
  /\ alloc.count = UINT16_MAX
  /\ alloc.first > 1
  /\ alloc.last = alloc.first - 1

\* ------------------------------------------------------------ C29
\* the time that has really passed since the slot was last sent, at the tick
\* just made
TrueElapsed == TimeSub(clk'.now, clk.last)

\* C29: a pending tick finds the slot due exactly when the time really passed
\* since it was last sent is at least ACK_RETRY_MS, whenever that time is
\* below 2^32 ms, and also when millis() went through zero in between; it
\* resends then and only then.
C29_DueOverWrap ==
  [][(clk' # clk /\ TrueElapsed.hi < 65536)
     => /\ clk'.due <=> (TrueElapsed.hi > 0 \/ TrueElapsed.lo >= ACK_RETRY_MS)
        /\ clk'.due => clk'.last = clk'.now
        /\ ~clk'.due => clk'.last = clk.last]_vars

\* a slot sent before millis() wrapped was found due after the wrap, less
\* than 2^16 ms later
C29_Witness ==
  /\ clk.due
  /\ clk.since.hi = 65535
  /\ clk.now.hi = 65536
  /\ clk.now.lo < clk.since.lo

\* ------------------------------------------------------------ C30
\* C30: every device's ring size is at least 1, and its position is -1, 0 or
\* one of 1 .. ring_size - 1.
C30_PositionInRing ==
  \A n \in Nodes :
    /\ node[n].ring_size >= 1
    /\ node[n].myPos \in ({-1, 0} \cup (1 .. (node[n].ring_size - 1)))

\* ------------------------------------------------------------ C31
\* the Trigger a cycle of coordinator n originates: one, to the address at
\* PeerTable position 1, for position 1, with hops ring_size + 4, the next
\* msg_id and the cycle's sequence, without the ack-requested flag and
\* without a slot of the pool
OriginatesOne(n) ==
  /\ Len(out') = 1
  /\ out'[1].msg.type = MSG_TRIGGER
  /\ out'[1].dst = node[n].peers[2].mac
  /\ out'[1].msg.dest_pos = 1
  /\ out'[1].msg.hops = node[n].ring_size + HOPS_MARGIN
  /\ out'[1].msg.msg_id = node[n].next_msg_id
  /\ out'[1].msg.seq = node[n].trigger_seq
  /\ (out'[1].msg.flags % 2) = 0
  /\ node'[n].pending = node[n].pending

\* C31: every trigger-timer cycle of the coordinator finds it running and
\* adds one to trigger_seq (mod 2^16); with more than one member in the
\* PeerTable the cycle originates one Trigger; and a Trigger is sent only by
\* such a cycle or in handling a Trigger received.
C31_TimerCycle ==
  [][/\ ev'.kind = "timer"
        => /\ node[ev'.n].master_running
           /\ node'[ev'.n].trigger_seq = U16(node[ev'.n].trigger_seq + 1)
           /\ node[ev'.n].peerCount > 1 => OriginatesOne(ev'.n)
     /\ (ev' # ev /\ TriggersOut' # {})
        => ev'.kind = "timer" \/ ev'.msg.type = MSG_TRIGGER]_vars

\* ------------------------------------------------------------ C32
\* C32: a device that sends a Trigger in handling one sends one, with hops one
\* less than the hops it received, which were not 0; a pending tick sends a
\* Trigger only as the copy its slot holds; and a Trigger on the air that the
\* coordinator originated has at most the hops of its origin, ring size + 4
\* (and at least 0).  So the copies of one Trigger form a chain of at most as
\* many forwards as the hops it started with, wherever the downstream
\* addresses point.
C32_RelayTerminates ==
  [][/\ \A n \in Nodes :
          (ReceivedAt(n, {MSG_TRIGGER})' /\ TriggersOut' # {})
          => /\ ev'.msg.hops > 0
             /\ Cardinality(TriggersOut') = 1
             /\ \A i \in TriggersOut' : out'[i].msg.hops = ev'.msg.hops - 1
     /\ ev'.kind = "tick"
        => \A i \in TriggersOut' :
             \E j \in UsedSlots(ev'.n) :
               /\ node[ev'.n].pending[j].msg = out'[i].msg
               /\ node[ev'.n].pending[j].retries_left > 0
     /\ \A f \in net' :
          f.msg.type = MSG_TRIGGER
          => /\ f.msg.hops >= 0
             /\ \A o \in origin' :
                  o.seq = f.msg.seq => f.msg.hops <= o.K + 1 + HOPS_MARGIN]_vars

\* a Trigger went round the ring, through the coordinator again, until a
\* device received it with no hops left
C32_Witness ==
  /\ Received(MSG_TRIGGER)
  /\ ev.msg.hops = 0
  /\ out = <<>>
  /\ \E o \in origin : o.seq = ev.msg.seq /\ o.K >= 1
  /\ [node |-> Master, seq |-> ev.msg.seq, via |-> "msg"] \in played

\* ------------------------------------------------------------ C33
\* slots of n in use after the step and not before, holding a message of the
\* given type with all its retries left and the timer started now
NewSlots(n, type) ==
  {j \in 1 .. MAX_PENDING_ACK :
     /\ ~node[n].pending[j].used
     /\ node'[n].pending[j].used
     /\ node'[n].pending[j].msg.type = type
     /\ node'[n].pending[j].retries_left = ACK_RETRIES
     /\ node'[n].pending[j].last_sent_ms = now'}

\* C33: the coordinator that answers the JoinRequest of a new address with
\* two slots free has, after the step, a new slot for the Assign and one for
\* the SetDown, each with ACK_RETRIES retries left and its timer started,
\* whether the transport took the first transmission or not; and a slot in
\* use is freed only by the receipt of an Ack with its msg_id or by a pending
\* tick that finds it without retries left.
C33_SendWithAckRegisters ==
  [][\A n \in Nodes :
       /\ (NewJoinHandledBy(n) /\ Cardinality(FreeSlots(node[n])) >= 2)
          => /\ Cardinality(NewSlots(n, MSG_ASSIGN)) = 1
             /\ Cardinality(NewSlots(n, MSG_SET_DOWN)) = 1
       /\ \A j \in UsedSlots(n) :
            ~node'[n].pending[j].used
            => \/ /\ ReceivedAt(n, {MSG_ACK})'
                  /\ ev'.msg.msg_id = node[n].pending[j].msg_id
               \/ /\ ev'.kind = "tick"
                  /\ ev'.n = n
                  /\ node[n].pending[j].retries_left = 0]_vars

\* ------------------------------------------------------------ C34
\* the five fields as n's Preferences hold them
PersistedFields(n) ==
  <<prefs[n].pos, prefs[n].ringsz, prefs[n].down, prefs[n].locked, prefs[n].lockk>>

\* C34: a device that restarts with its five fields in Preferences holds,
\* after setup(), exactly the values persisted.
C34_SaveRestartRoundTrip ==
  [][\A n \in Nodes :
       (/\ ev'.kind = "boot"
        /\ ev'.n = n
        /\ ev' # ev
        /\ {"pos", "ringsz", "down", "locked", "lockk"} \subseteq prefs[n].has)
       => RingProtocolState(node'[n]) = PersistedFields(n)]_vars

\* ------------------------------------------------------------ C35
\* the keys a device holds and has installed
LockState(s) == <<s.locked, s.lock_key, s.derived_pmk, s.derived_lmk, s.esp_pmk>>

\* C35: a device that receives a Lock whose length byte is 0 or more than the
\* 11 bytes the payload has after it keeps locked, lock_key and its keys as
\* they were; and the lock_key a Lock leaves is made of bytes of its payload,
\* those after the length byte up to the first 0.
C35_LockLengthChecked ==
  [][\A n \in Nodes :
       ReceivedAt(n, {MSG_LOCK})'
       => LET klen == ev'.msg.payload[1]
          IN  /\ (klen = 0 \/ klen > PAYLOAD_LEN - 1)
                 => LockState(node'[n]) = LockState(node[n])
              /\ LockState(node'[n]) # LockState(node[n])
                 => node'[n].lock_key = CStr(SubSeq(ev'.msg.payload, 2, klen + 1))]_vars

\* ------------------------------------------------------------ C36
\* in device state s, mac is a transport peer with encryption and the key
\* derived from the lock key
EncryptedPeer(s, mac) ==
  \E e \in s.esp_peers : e.peer_addr = mac /\ e.encrypt /\ e.lmk = s.derived_lmk

\* C36: whatever a locked device that is not the coordinator sends to one
\* address -- the Ack of the Lock included -- it sends to a transport peer
\* with encryption and the derived key, also when the address was a peer
\* before the Lock.
C36_LockedSendsEncrypted ==
  [][\A n \in Nodes :
       (ev'.n = n /\ ev' # ev /\ node'[n].locked /\ node'[n].myPos # 0)
       => \A i \in 1 .. Len(out') :
            out'[i].dst # BROADCAST_MAC => EncryptedPeer(node'[n], out'[i].dst)]_vars

\* ------------------------------------------------------------ C37
\* the ways device n has run its animation for sequence number seq
PlayedFor(n, seq) == {p \in played : p.node = n /\ p.seq = seq}

\* C37: for a Trigger the coordinator originated, every device has run its
\* animation at most once: the coordinator from its timer, the others on
\* receiving the Trigger.
C37_AnimationOncePerTrigger ==
  \A o \in origin : \A n \in Nodes : Cardinality(PlayedFor(n, o.seq)) <= 1

\* ------------------------------------------------------------ C38
\* The step is coordinator m receiving the Ack of the Assign in slot j, an
\* Assign it sent again to a device that held a position with a successor (its
\* ring size is past the position after the device's), while m is unlocked and
\* the device holds that position.
RejoinAssignAcked(m, j) ==
  /\ ReceivedAt(m, {MSG_ACK})'
  /\ IsCoordinator(m) /\ ~node[m].locked
  /\ node[m].pending[j].used /\ ~node'[m].pending[j].used
  /\ node[m].pending[j].msg.type = MSG_ASSIGN
  /\ node[m].pending[j].msg.payload[2] > node[m].pending[j].msg.payload[1] + 1
  /\ node[m].pending[j].msg.payload[1] + 2 <= node'[m].peerCount
  /\ node'[DeviceOf(node[m].pending[j].dest_mac)].myPos = node[m].pending[j].msg.payload[1]

\* C38: when the Assign the coordinator sent again to a joined device that has
\* a successor has been delivered and acknowledged, the device's downstream
\* address is its successor's address and its ring size the coordinator's peer
\* count.
C38_RejoinKeepsRingClosed ==
  [][\A m \in Nodes : \A j \in 1 .. MAX_PENDING_ACK :
       RejoinAssignAcked(m, j)
       => LET d == DeviceOf(node[m].pending[j].dest_mac)
              pos == node[m].pending[j].msg.payload[1]
          IN  /\ node'[d].downstreamMac = node'[m].peers[pos + 2].mac
              /\ node'[d].ring_size = node'[m].peerCount]_vars

\* ------------------------------------------------------------ C39
\* device n holds a position of coordinator m's ring
AssignedIn(m, n) ==
  /\ node[n].myPos >= 0
  /\ node[n].myPos < node[m].peerCount
  /\ node[m].peers[node[n].myPos + 1].mac = MacOf(n)

\* C39: once every Assign and SetDown the coordinator sent has been
\* acknowledged, the ring size of every device that holds a position is the
\* coordinator's peer count.
C39_RingSizeIsPeerCount ==
  \A m \in Nodes :
    (IsCoordinator(m) /\ AllCtlAcked)
    => \A n \in Nodes : AssignedIn(m, n) => node[n].ring_size = node[m].peerCount

\* ------------------------------------------------------------ C40
\* the step is the pass of n's button section that erases and restarts it
FactoryResetStep(n) ==
  /\ HeldForReset(n) /\ ~node[n].btn_event_sent
  /\ ev'.kind = "button" /\ ev'.n = n

\* C40: a device at position 0 is at position 0 after every step that is not
\* its factory reset, and at most one device is at position 0.
C40_CoordinatorStable ==
  [][/\ \A n \in Nodes :
          (node[n].myPos = 0 /\ ~FactoryResetStep(n)) => node'[n].myPos = 0
     /\ Cardinality({n \in Nodes : node'[n].myPos = 0}) <= 1]_vars
====
